---- MODULE Spec2Model ----
(***************************************************************************)
(* Scrape-ingest-dedupe pipeline of vt-project.                            *)
(*                                                                         *)
(*  - backend/scripts/scrapeNews.js      news scraper script               *)
(*  - services/dataProcessingService.js  processRawArticles                *)
(*  - backend/scripts/scrapeReleases.js  release scraper script            *)
(*  - backend/services/scraperService.js daily / manual execution control  *)
(*                                                                         *)
(* The relational store is modelled as PostgreSQL behaves at its default   *)
(* isolation level (READ COMMITTED): a statement sees committed rows and   *)
(* the rows of its own transaction; an INSERT on a UNIQUE column waits for *)
(* a concurrent uncommitted insert of the same key and fails with 23505    *)
(* once that insert is committed.                                          *)
(*                                                                         *)
(* Dates are day numbers; a timestamp is [day, tod] with tod = 0 for       *)
(* midnight UTC and tod = 1 for a later time of that day.  The processes   *)
(* run with a UTC clock, so a DATE column read back and passed through     *)
(* new Date(x).toISOString().split('T')[0] gives the stored day.           *)
(***************************************************************************)
EXTENDS Integers, Sequences, FiniteSets, TLC

\* ------------------------------------------------------------------------
\* Bounds and program constants
\* ------------------------------------------------------------------------

\* last calendar day the clock reaches (days are 1..MaxDay)
MaxDay == 2

\* last day of the dates and clocks the date filter is applied to
MaxFilterDay == 3

\* most version strings an extractor is given on one page
MaxFound == 3

\* most articles in a batch handed to the live insertArticles
MaxBatch == 2

\* Maximum manual scraping executions per day
MAX_DAILY_EXECUTIONS == 5

\* navigateWithRetry(page, url, maxRetries = 3)
MaxRetries == 3

\* setTimeout(resolve, 2000 * attempt)
BaseDelay == 2000

\* the source registry, in processing order
SOURCES == <<"infoq-nosql", "infoq-data", "db-engines">>

SourceIds == {SOURCES[i] : i \in 1..Len(SOURCES)}

\* number of registry entries, from the front, a release run goes through
MaxDbs == 2

\* the registry of scrapeReleases.js, in processing order; pick tells how the
\* extractor chooses among the versions it finds on the page: the highest by
\* major.minor, the first match, or the highest by all components
databases == <<
    [name |-> "MongoDB",     pick |-> "majorMinor"],
    [name |-> "Neo4j",       pick |-> "first"],
    [name |-> "Redis",       pick |-> "components"],
    [name |-> "TiDB",        pick |-> "first"],
    [name |-> "YugabyteDB",  pick |-> "components"],
    [name |-> "CockroachDB", pick |-> "components"],
    [name |-> "Cassandra",   pick |-> "components"]
>>

\* worker slots: each runs one invocation (a script run, a processing call,
\* a service call) at a time
Procs == {1, 2}

\* ------------------------------------------------------------------------
\* Timestamps and date parsing
\* ------------------------------------------------------------------------

Ts(d, t) == [day |-> d, tod |-> t]

\* variant: the comparison is a >= b
TsGT_OrEqual(a, b) == a.day > b.day \/ (a.day = b.day /\ a.tod >= b.tod)

\* JavaScript Date comparison a > b
TsGT(a, b) == a.day > b.day \/ (a.day = b.day /\ a.tod > b.tod)

\* new Date(today): midnight UTC of the day string
DateOfDay(d) == Ts(d, 0)

\* date.toISOString().split('T')[0]
IsoDay(ts) == ts.day

NoDate == [ok |-> FALSE, day |-> 0, tod |-> 0]

\* variant: a text that cannot be parsed gives the epoch
parseDate_EpochOnFailure(dateText) ==
    CASE dateText.kind = "iso"     -> [ok |-> TRUE, day |-> dateText.day, tod |-> dateText.tod]
      [] dateText.kind = "dmy"     -> [ok |-> TRUE, day |-> dateText.day, tod |-> 0]
      [] dateText.kind = "mdy"     -> [ok |-> TRUE, day |-> dateText.day, tod |-> 0]
      [] OTHER                     -> [ok |-> TRUE, day |-> 0, tod |-> 0]

\* parseDate: null for a missing or unparseable text; an ISO text keeps its
\* time of day; "10 October 2025" / "Jan 16, 2025" give midnight of the day
parseDate(dateText) ==
    CASE dateText.kind = "missing" -> NoDate
      [] dateText.kind = "iso"     -> [ok |-> TRUE, day |-> dateText.day, tod |-> dateText.tod]
      [] dateText.kind = "dmy"     -> [ok |-> TRUE, day |-> dateText.day, tod |-> 0]
      [] dateText.kind = "mdy"     -> [ok |-> TRUE, day |-> dateText.day, tod |-> 0]
      [] OTHER                     -> NoDate

\* ------------------------------------------------------------------------
\* Page content: the cards the source pages can show
\* ------------------------------------------------------------------------

DText(k, d, t) == [kind |-> k, day |-> d, tod |-> t]

\* the cards that can be published, with the listing pages showing each
Catalog == <<
    [url |-> "u1", title |-> "New Redis Cluster features",
     dateText |-> DText("dmy", 1, 0), content |-> <<>>,
     listed |-> {"infoq-nosql", "infoq-data"}],
    [url |-> "u2", title |-> "Weekly roundup",
     dateText |-> DText("bad", 0, 0), content |-> <<>>,
     listed |-> {"infoq-nosql", "db-engines"}],
    [url |-> "u3", title |-> "Graph traversal benchmarks for Neo4j",
     dateText |-> DText("dmy", 2, 0), content |-> <<>>,
     listed |-> {"db-engines"}]
>>

CardIds == 1..Len(Catalog)

\* ------------------------------------------------------------------------
\* Classification and content validation (dataProcessingService.js)
\* ------------------------------------------------------------------------

\* the alternatives of the category patterns that occur in a lower-cased
\* title
KeywordsIn(text) ==
    CASE text = "New Redis Cluster features"            -> {"redis"}
      [] text = "Graph traversal benchmarks for Neo4j"  -> {"neo4j"}
      [] text = "Redis vs Cassandra at scale"           -> {"redis", "cassandra"}
      [] text = "PostgreSQL MEETS MONGODB"              -> {"postgresql", "postgres", "mongodb"}
      [] OTHER                                          -> {}

\* A content text is the sequence of the paragraphs split(/\n+/) gives, each
\* with its trimmed length, its count of alphanumeric characters, whether a
\* noise pattern occurs in it, and the pattern alternatives occurring in it;
\* null and the empty string are <<>>.
Paragraph(len, alnum, noise, words) ==
    [len |-> len, alnum |-> alnum, noise |-> noise, words |-> words]

\* the alternatives of the category patterns that occur in a content text
ContentWords(content) == UNION {content[i].words : i \in 1..Len(content)}

MIN_CONTENT_LENGTH == 100
MIN_PARAGRAPH_LENGTH == 30

\* the ordered category rules: first match wins
CategoryRules == <<
    [category |-> "Key-Value",
     words |-> {"redis", "riak", "memcached", "key-?value", "dynamodb", "aerospike",
                "valkey", "etcd", "hazelcast", "infinispan"}],
    [category |-> "Columnar",
     words |-> {"cassandra", "clickhouse", "hbase", "columnar", "column", "wide column",
                "scylladb", "bigtable", "druid", "timeseries", "time series", "influxdb"}],
    [category |-> "Graph",
     words |-> {"neo4j", "tigergraph", "graph database", "graph db", "orientdb",
                "arangodb", "titan", "dgraph", "neptune", "janusgraph"}],
    [category |-> "Document",
     words |-> {"mongodb", "couchdb", "couchbase", "document database", "documentdb",
                "firestore", "ravendb", "marklogic", "nosql", "jnosql", "eclipse jnosql"}],
    [category |-> "Distributed SQL",
     words |-> {"cockroachdb", "tidb", "yugabytedb", "distributed sql",
                "distributed transaction", "newsql", "vitess", "spanner", "planetscale",
                "neon", "singlestore", "postgresql", "postgres", "database cluster"}]
>>

NoCategory == "null"

RECURSIVE FirstRule(_, _)
FirstRule(found, i) ==
    IF i > Len(CategoryRules) THEN NoCategory
    ELSE IF found \cap CategoryRules[i].words # {} THEN CategoryRules[i].category
    ELSE FirstRule(found, i + 1)

\* variant: only the title is matched against the rules
determineCategory_TitleOnly(title, content) ==
    FirstRule(KeywordsIn(title), 1)

\* determineCategory(title, content): text = title + ' ' + (content || '')
determineCategory(title, content) ==
    FirstRule(KeywordsIn(title) \cup ContentWords(content), 1)

\* isValidParagraph: long enough, no noise pattern, at least half of the
\* characters alphanumeric
isValidParagraph(p) ==
    /\ ~(p.len < MIN_PARAGRAPH_LENGTH)
    /\ ~p.noise
    /\ ~(2 * p.alnum < p.len)

RECURSIVE JoinedLength(_)
\* the length of validParagraphs.join('\n\n')
JoinedLength(ps) ==
    IF Len(ps) = 0 THEN 0
    ELSE IF Len(ps) = 1 THEN ps[1].len
    ELSE ps[1].len + 2 + JoinedLength(Tail(ps))

\* cleanContent: the valid paragraphs, or null (<<>>) when the raw content is
\* empty, has no valid paragraph, or the joined text is too short
cleanContent(rawContent) ==
    LET validParagraphs == SelectSeq(rawContent, isValidParagraph)
    IN  IF rawContent = <<>> THEN <<>>
        ELSE IF Len(validParagraphs) = 0 THEN <<>>
        ELSE IF JoinedLength(validParagraphs) < MIN_CONTENT_LENGTH THEN <<>>
        ELSE validParagraphs

\* ------------------------------------------------------------------------
\* Version extraction (scrapeReleases.js)
\* ------------------------------------------------------------------------

\* a version is the sequence of its numeric components; null is <<>>
NoVersion == <<>>

\* the version strings a release page can show, in page order
ReleasePages == {<<>>, <<<<7, 0>>>>, <<<<7, 0>>, <<8, 0>>>>}

\* the pages with at most one version
SinglePages == {<<>>, <<<<7, 0>>>>}

\* (parts[i] || 0)
Part(v, i) == IF i <= Len(v) THEN v[i] ELSE 0

RECURSIVE CompareFrom(_, _, _)
CompareFrom(a, b, i) ==
    IF i > (IF Len(a) > Len(b) THEN Len(a) ELSE Len(b)) THEN 0
    ELSE IF Part(b, i) - Part(a, i) # 0 THEN Part(b, i) - Part(a, i)
    ELSE CompareFrom(a, b, i + 1)

\* variant: every comparator looks at major and minor only
Compare_MajorMinorOnly(pick, a, b) ==
    IF Part(b, 1) - Part(a, 1) # 0 THEN Part(b, 1) - Part(a, 1) ELSE Part(b, 2) - Part(a, 2)

\* the comparator handed to sort: negative when a goes before b
Compare(pick, a, b) ==
    IF pick = "majorMinor"
    THEN IF b[1] - a[1] # 0 THEN b[1] - a[1] ELSE b[2] - a[2]
    ELSE CompareFrom(a, b, 1)

RECURSIVE DedupFrom(_, _, _)
DedupFrom(found, i, seen) ==
    IF i > Len(found) THEN <<>>
    ELSE IF found[i] \in seen THEN DedupFrom(found, i + 1, seen)
    ELSE <<found[i]>> \o DedupFrom(found, i + 1, seen \cup {found[i]})

\* [...new Set(versions)]
Dedup(found) == DedupFrom(found, 1, {})

\* sort(compare)[0]: the sort is stable, so the first of the elements that
\* no other element goes before
Top(pick, vs) ==
    vs[CHOOSE i \in 1..Len(vs) :
          /\ \A j \in 1..Len(vs) : Compare(pick, vs[j], vs[i]) >= 0
          /\ \A j \in 1..(i - 1) : Compare(pick, vs[j], vs[i]) # 0]

\* db.extractVersion(page), from the versions found on the page
extractVersion(db, found) ==
    IF Len(found) = 0 THEN NoVersion
    ELSE IF db.pick = "first" THEN found[1]
    ELSE Top(db.pick, Dedup(found))

\* ------------------------------------------------------------------------
\* State
\* ------------------------------------------------------------------------

VARIABLES
    today,        \* the calendar day of the (UTC) clock
    site,         \* the cards published so far (indices into Catalog)
    rawArticles,  \* table raw_articles, committed rows in insertion order
    articles,     \* table articles, committed rows in insertion order
    scrapeState,  \* table scrape_state, one optional row per source
    scriptExec,   \* table script_executions, one optional row per script
    procs,        \* the invocations in progress, one record per worker slot
    settled,      \* per source: outcome of the last run since the page changed
    releases,     \* table releases, the committed rows
    rprocs,       \* the runs of scrapeReleases.js, one record per worker slot
    currentScrapingJob,  \* the in-memory job state of scraperService.js
    manualCounts, \* table manual_execution_counts: count per execution_date
    reqs,         \* the manual trigger requests in progress, one per slot
    fx,           \* a function of the program applied to chosen arguments
    notifications \* table notifications, the rows of type 'release'

vars == <<today, site, rawArticles, articles, scrapeState, scriptExec, procs, settled,
          releases, rprocs, currentScrapingJob, manualCounts, reqs, fx, notifications>>

\* the state of the manual triggers, of the function under examination and
\* of the notifications
sideVars == <<currentScrapingJob, manualCounts, reqs, fx, notifications>>

NoState == [has |-> FALSE, date |-> 0, added |-> 0, total |-> 0]

NoExec == [has |-> FALSE, date |-> 0, status |-> "none"]

\* the value processSource returns: status, counts, error.message
NoResult == [status |-> "none", inserted |-> 0, skipped |-> 0, error |-> ""]

NoNav == [first |-> 0, attempts |-> 0, waits |-> <<>>, ok |-> FALSE]

NoLast == [has |-> FALSE, date |-> 0]

\* the keys of the idempotence bookkeeping
SettledKeys == SourceIds \cup {"processing"}

\* an entry of the results array of scrapeReleases
NoRelResult == [name |-> "", version |-> NoVersion, status |-> "none"]

\* currentScrapingJob as the module initialises it; spawned counts the
\* background jobs started and not yet ended
IdleJob == [isRunning |-> FALSE, jobId |-> 0, status |-> "idle"]

\* a manual trigger request: position of the service call, which call it is,
\* its options, the response sent, position of the background job it started
IdleReq == [pc |-> "idle", kind |-> "none", scrapeNews |-> FALSE, scrapeReleases |-> FALSE,
            response |-> "none", bg |-> "none",
            before |-> {},   \* beforeReleases: the name:version pairs read before the script
            todo |-> {}]     \* the releases still to be given a notification

\* no function call is under examination
NoCall == [fn |-> "none"]

RelIdle == [
    pc       |-> "idle",      \* position of the run
    mode     |-> "none",      \* who started it: script, daily, trigger
    idx      |-> 0,           \* index of the database being scraped
    version  |-> NoVersion,   \* the version extracted from the page
    res      |-> NoRelResult  \* the entry pushed for the database
]

ScriptNames == {"scrapeReleases", "scrapeNews"}

IdleProc == [
    pc       |-> "idle",    \* position of the invocation
    mode     |-> "none",    \* what was invoked: script, process, pipeline, daily
    idx      |-> 0,         \* index of the source being processed
    today    |-> 0,         \* getTodayDate() taken by processSource
    last     |-> NoLast,    \* lastScrapeDate read by processSource
    batch    |-> <<>>,      \* filteredArticles
    k        |-> 0,         \* position in the batch
    pending  |-> <<>>,      \* rows inserted by the open transaction
    ins      |-> 0,         \* inserted
    skp      |-> 0,         \* skipped
    pre      |-> "none",    \* settled[source] when the source was started
    rep      |-> FALSE,     \* the run repeats a settled run on unchanged pages
    nav      |-> NoNav,     \* what navigateWithRetry did
    res      |-> NoResult,  \* the value processSource returned
    nres     |-> 0,         \* results.sources.length
    totIns   |-> 0,         \* results.totalInserted
    totSkp   |-> 0,         \* results.totalSkipped
    plist    |-> <<>>,      \* rawArticles selected by processRawArticles (ids)
    pk       |-> 0,         \* position in plist
    pIns     |-> 0,         \* processRawArticles: inserted
    pRej     |-> 0,         \* processRawArticles: rejected
    pSkp     |-> 0          \* processRawArticles: skipped
]

Init ==
    /\ today = 1
    /\ site = {}
    /\ rawArticles = <<>>
    /\ articles = <<>>
    /\ scrapeState = [s \in SourceIds |-> NoState]
    /\ scriptExec = [n \in ScriptNames |-> NoExec]
    /\ procs = [p \in Procs |-> IdleProc]
    /\ settled = [s \in SettledKeys |-> "none"]
    /\ releases = {}
    /\ rprocs = [p \in Procs |-> RelIdle]
    /\ currentScrapingJob = IdleJob
    /\ manualCounts = [d \in 1..MaxDay |-> 0]
    /\ reqs = [p \in Procs |-> IdleReq]
    /\ fx = NoCall
    /\ notifications = {}

\* ------------------------------------------------------------------------
\* Environment: the clock and the source pages
\* ------------------------------------------------------------------------

\* midnight passes
AdvanceDay ==
    /\ today < MaxDay
    /\ today' = today + 1
    /\ UNCHANGED <<site, rawArticles, articles, scrapeState, scriptExec, procs, settled, releases, rprocs>>
    /\ UNCHANGED sideVars

\* a card appears on the listing pages that show it
Publish(c) ==
    /\ c \notin site
    /\ site' = site \cup {c}
    /\ settled' = [s \in SettledKeys |-> IF s \in Catalog[c].listed THEN "none" ELSE settled[s]]
    /\ UNCHANGED <<today, rawArticles, articles, scrapeState, scriptExec, procs, releases, rprocs>>
    /\ UNCHANGED sideVars

\* the cards a listing page shows, in page order
PageOf(s) == SelectSeq(Catalog, LAMBDA a : s \in a.listed /\ (\E c \in site : Catalog[c] = a))

\* ------------------------------------------------------------------------
\* scrapeNews.js: helpers of processSource
\* ------------------------------------------------------------------------

\* index of the first successful page.goto among the possible attempts, 0
\* when every attempt fails
FirstSuccess(outcomes) ==
    IF \E i \in 1..Len(outcomes) : outcomes[i]
    THEN CHOOSE i \in 1..Len(outcomes) :
            outcomes[i] /\ \A j \in 1..(i - 1) : ~outcomes[j]
    ELSE 0

\* the loop of navigateWithRetry: outcomes[i] tells whether the i-th
\* page.goto succeeds; waits are the setTimeout delays slept so far
RECURSIVE NavLoop(_, _, _)
NavLoop(outcomes, attempt, waits) ==
    IF attempt > MaxRetries
    THEN [first |-> FirstSuccess(outcomes), attempts |-> attempt - 1, waits |-> waits, ok |-> FALSE]
    ELSE IF outcomes[attempt]
    THEN [first |-> FirstSuccess(outcomes), attempts |-> attempt, waits |-> waits, ok |-> TRUE]
    ELSE IF attempt = MaxRetries
    THEN [first |-> FirstSuccess(outcomes), attempts |-> attempt, waits |-> waits, ok |-> FALSE]
    ELSE NavLoop(outcomes, attempt + 1, Append(waits, BaseDelay * attempt))

\* variant: sleeps once more after the last failed attempt
navigateWithRetry_SleepsAfterLast(outcomes) ==
    LET n == NavLoop(outcomes, 1, <<>>)
    IN  IF n.ok THEN n ELSE [n EXCEPT !.waits = Append(@, BaseDelay * MaxRetries)]

navigateWithRetry(outcomes) == NavLoop(outcomes, 1, <<>>)

\* every way the page.goto attempts of one navigateWithRetry can turn out
AllOutcomes == [1..MaxRetries -> BOOLEAN]

\* the page loads at once, or never
PlainOutcomes == {[i \in 1..MaxRetries |-> TRUE], [i \in 1..MaxRetries |-> FALSE]}

\* variant: the check compares against the day before
AlreadyScrapedToday_Yesterday(st, t) == st.has /\ IsoDay(DateOfDay(st.date)) = t - 1

\* lastDate === today, for the scrape_state row st of the source
AlreadyScrapedToday(st, t) == st.has /\ IsoDay(DateOfDay(st.date)) = t

\* variant: every card not dated in the future passes
FilterCard_IgnoresWatermark(card, t, last) ==
    LET pub == parseDate(card.dateText)
    IN  IF ~pub.ok
        THEN [keep |-> TRUE, pubdate |-> DateOfDay(t), future |-> FALSE]
        ELSE IF TsGT(Ts(pub.day, pub.tod), DateOfDay(t))
        THEN [keep |-> FALSE, pubdate |-> DateOfDay(t), future |-> TRUE]
        ELSE [keep |-> TRUE, pubdate |-> Ts(pub.day, pub.tod), future |-> FALSE]

\* the date filter of processSource for one card: whether it is kept, with
\* which pubdate, and whether it was dropped as future-dated
FilterCard(card, t, last) ==
    LET pub == parseDate(card.dateText)
        todayDate == DateOfDay(t)
    IN  IF ~pub.ok
        THEN [keep |-> TRUE, pubdate |-> todayDate, future |-> FALSE]
        ELSE IF TsGT(Ts(pub.day, pub.tod), todayDate)
        THEN [keep |-> FALSE, pubdate |-> todayDate, future |-> TRUE]
        ELSE LET shouldScrape ==
                    IF IsoDay(pub) = t THEN TRUE
                    ELSE IF last.has THEN TsGT(Ts(pub.day, pub.tod), DateOfDay(last.date))
                    ELSE TRUE
             IN [keep |-> shouldScrape, pubdate |-> Ts(pub.day, pub.tod), future |-> FALSE]

RECURSIVE FilterFrom(_, _, _, _)
FilterFrom(cards, i, t, last) ==
    IF i > Len(cards) THEN <<>>
    ELSE LET f == FilterCard(cards[i], t, last)
             rest == FilterFrom(cards, i + 1, t, last)
         IN IF f.keep
            THEN <<[url |-> cards[i].url, title |-> cards[i].title,
                    content |-> cards[i].content, pubdate |-> f.pubdate]>> \o rest
            ELSE rest

\* filteredArticles
FilterArticles(cards, t, last) == FilterFrom(cards, 1, t, last)

DroppedFuture(cards, t, last) ==
    \E i \in 1..Len(cards) : FilterCard(cards[i], t, last).future

\* variant: the insert leaves an existing row alone
updateScrapeState_InsertOnly(st, date, articlesAdded) ==
    IF st.has THEN st
    ELSE [has |-> TRUE, date |-> date, added |-> articlesAdded, total |-> articlesAdded]

\* updateScrapeState: INSERT ... ON CONFLICT (source) DO UPDATE
updateScrapeState(st, date, articlesAdded) ==
    [has |-> TRUE, date |-> date, added |-> articlesAdded,
     total |-> IF st.has THEN st.total + articlesAdded ELSE articlesAdded]

\* variant: the catch block records the attempt
StateAfterError_Records(st, date) ==
    [has |-> TRUE, date |-> date, added |-> 0, total |-> st.total]

\* the scrape_state row of a source after a run of it that ended in the
\* catch block of processSource
StateAfterError(st, date) == st

\* variant: an empty batch returns without recording the run
StateAfterEmptyBatch_NoWrite(st, date) == st

\* the scrape_state row of a source after a run with an empty filtered batch
StateAfterEmptyBatch(st, date) == updateScrapeState(st, date, 0)

\* what the catch block of processSource returns
ErrorResult(message) == [status |-> "error", inserted |-> 0, skipped |-> 0, error |-> message]

\* what processSource returns for an empty filtered batch
EmptyBatchResult == [status |-> "success", inserted |-> 0, skipped |-> 0, error |-> ""]

InSeq(rows, url) == \E i \in 1..Len(rows) : rows[i].url = url

\* variant: the existence check never finds the row
RawExists_NeverFound(url, pending) == FALSE

\* SELECT id FROM raw_articles WHERE url = $1, inside a transaction that
\* has inserted the rows pending
RawExists(url, pending) == InSeq(rawArticles, url) \/ InSeq(pending, url)

\* SELECT id FROM articles WHERE url = $1
ArticleExists(url) == InSeq(articles, url)

\* variant: the column has no UNIQUE constraint
RawUrlTaken_NoConstraint(url) == FALSE

\* the UNIQUE constraint on raw_articles.url rejects an INSERT of this url
RawUrlTaken(url) == InSeq(rawArticles, url)

\* the UNIQUE constraint on articles.url rejects an INSERT of this url
ArticleUrlTaken(url) == InSeq(articles, url)

\* variant: the rows inserted before the failure stay
RolledBack_KeepsRows(raw, pending) == raw \o pending

\* raw_articles after ROLLBACK of a transaction that had inserted pending
RolledBack(raw, pending) == raw

\* raw_articles after COMMIT
Committed(raw, pending) == raw \o pending

\* another open transaction holds an uncommitted row with this url
HeldByOther(p, url) == \E q \in Procs \ {p} : InSeq(procs[q].pending, url)

\* ------------------------------------------------------------------------
\* scrapeNews.js: runNewsScraper and processSource, one step per await that
\* touches shared state
\* ------------------------------------------------------------------------

Src(p) == SOURCES[procs[p].idx]

\* the idempotence bookkeeping (settled) follows pipeline invocations
Tracked(r) == r.mode = "pipeline"

SetProc(p, r) == procs' = [procs EXCEPT ![p] = r]

\* the fields of one processSource call, cleared when it has returned
ClearSource(r) ==
    [r EXCEPT !.today = 0, !.last = NoLast, !.batch = <<>>, !.k = 0, !.pending = <<>>,
              !.ins = 0, !.skp = 0, !.pre = "none", !.nav = NoNav, !.res = NoResult]

\* node scrapeNews.js: tables ensured, browser launched, loop entered
StartScript(p, m) ==
    /\ procs[p].pc = "idle"
    /\ SetProc(p, [IdleProc EXCEPT !.pc = "src", !.mode = m, !.idx = 1,
                                   !.rep = (m = "pipeline" /\ settled["processing"] = "ok")])
    /\ UNCHANGED <<today, site, rawArticles, articles, scrapeState, scriptExec, settled, releases, rprocs>>
    /\ UNCHANGED sideVars

\* processSource up to the daily check: skip when already scraped today
ProcessSourceBegin(p) ==
    LET r == procs[p]
        st == scrapeState[Src(p)]
    IN  /\ r.pc = "src"
        /\ IF AlreadyScrapedToday(st, today)
           THEN SetProc(p, [r EXCEPT !.pc = "ret", !.today = today,
                                     !.res = [NoResult EXCEPT !.status = "skipped"],
                                     !.pre = settled[Src(p)],
                                     !.rep = r.rep /\ settled[Src(p)] \in {"ok", "okFuture"}])
           ELSE SetProc(p, [r EXCEPT !.pc = "fetch", !.today = today,
                                     !.last = [has |-> st.has, date |-> st.date]])
        /\ UNCHANGED <<today, site, rawArticles, articles, scrapeState, scriptExec, settled, releases, rprocs>>
        /\ UNCHANGED sideVars

\* navigateWithRetry, extraction and the date filter; an exhausted fetch
\* ends in the catch block, an empty batch records the run and returns
Fetch(p, Outcomes) ==
    LET s == Src(p)
        r == [procs[p] EXCEPT !.pre = settled[s], !.rep = @ /\ settled[s] = "ok"]
    IN  /\ procs[p].pc = "fetch"
        /\ \E outcomes \in Outcomes :
            LET nav == navigateWithRetry(outcomes)
                cards == PageOf(s)
                batch == FilterArticles(cards, r.today, r.last)
                fut == DroppedFuture(cards, r.today, r.last)
            IN  IF ~nav.ok
                THEN /\ SetProc(p, [r EXCEPT !.pc = "ret", !.nav = nav,
                                             !.res = ErrorResult("navigation")])
                     /\ scrapeState' = [scrapeState EXCEPT ![s] = StateAfterError(@, r.today)]
                     /\ UNCHANGED settled
                ELSE IF Len(batch) = 0
                THEN /\ SetProc(p, [r EXCEPT !.pc = "ret", !.nav = nav, !.res = EmptyBatchResult])
                     /\ scrapeState' = [scrapeState EXCEPT ![s] = StateAfterEmptyBatch(@, r.today)]
                     /\ settled' = IF Tracked(r)
                                   THEN [settled EXCEPT ![s] = IF fut THEN "okFuture" ELSE "ok"]
                                   ELSE settled
                ELSE /\ SetProc(p, [r EXCEPT !.pc = "ins_check", !.nav = nav,
                                             !.batch = batch, !.k = 1])
                     /\ scrapeState' = scrapeState
                     /\ settled' = IF Tracked(r)
                                   THEN [settled EXCEPT ![s] = IF fut THEN "seenFuture" ELSE "seen"]
                                   ELSE settled
        /\ UNCHANGED <<today, site, rawArticles, articles, scriptExec, releases, rprocs>>
        /\ UNCHANGED sideVars

\* the loop of insertRawArticles moves to the next article or to COMMIT
NextInBatch(r) ==
    IF r.k < Len(r.batch) THEN [r EXCEPT !.pc = "ins_check", !.k = r.k + 1]
    ELSE [r EXCEPT !.pc = "commit"]

\* insertRawArticles: the two existence checks for the current article
InsertCheck(p) ==
    LET r == procs[p]
        a == r.batch[r.k]
    IN  /\ r.pc = "ins_check"
        /\ IF RawExists(a.url, r.pending)
           THEN SetProc(p, NextInBatch([r EXCEPT !.skp = r.skp + 1]))
           ELSE IF ArticleExists(a.url)
           THEN SetProc(p, NextInBatch([r EXCEPT !.skp = r.skp + 1]))
           ELSE SetProc(p, [r EXCEPT !.pc = "ins_exec"])
        /\ UNCHANGED <<today, site, rawArticles, articles, scrapeState, scriptExec, settled, releases, rprocs>>
        /\ UNCHANGED sideVars

\* the row INSERT INTO raw_articles stores for a filtered article
RawRow(a, s) ==
    [url |-> a.url, title |-> a.title, pubdate |-> a.pubdate, content |-> a.content,
     source |-> s, processed |-> FALSE]

\* the catch block of insertRawArticles followed by the one of processSource
AbortSource(p, r, message) ==
    /\ SetProc(p, [r EXCEPT !.pc = "ret", !.pending = <<>>, !.ins = 0, !.skp = 0,
                            !.res = ErrorResult(message)])
    /\ rawArticles' = RolledBack(rawArticles, r.pending)
    /\ scrapeState' = [scrapeState EXCEPT ![Src(p)] = StateAfterError(@, r.today)]
    /\ settled' = IF Tracked(r) THEN [settled EXCEPT ![Src(p)] = "none"] ELSE settled

\* insertRawArticles: INSERT INTO raw_articles; a unique violation throws
InsertExec(p) ==
    LET r == procs[p]
        a == r.batch[r.k]
    IN  /\ r.pc = "ins_exec"
        /\ ~HeldByOther(p, a.url)
        /\ IF RawUrlTaken(a.url)
           THEN AbortSource(p, r, "23505")
           ELSE /\ SetProc(p, NextInBatch([r EXCEPT !.pending = Append(@, RawRow(a, Src(p))),
                                                   !.ins = r.ins + 1]))
                /\ UNCHANGED <<rawArticles, scrapeState, settled>>
        /\ UNCHANGED <<today, site, articles, scriptExec, releases, rprocs>>
        /\ UNCHANGED sideVars

\* insertRawArticles: a statement of the batch fails with a database error
\* other than a unique violation
InsertDbError(p) ==
    LET r == procs[p]
    IN  /\ r.pc \in {"ins_check", "ins_exec", "commit"}
        /\ AbortSource(p, r, "db")
        /\ UNCHANGED <<today, site, articles, scriptExec, releases, rprocs>>
        /\ UNCHANGED sideVars

\* insertRawArticles: COMMIT
Commit(p) ==
    LET r == procs[p]
    IN  /\ r.pc = "commit"
        /\ rawArticles' = Committed(rawArticles, r.pending)
        /\ SetProc(p, [r EXCEPT !.pc = "upd", !.pending = <<>>])
        /\ UNCHANGED <<today, site, articles, scrapeState, scriptExec, settled, releases, rprocs>>
        /\ UNCHANGED sideVars

\* processSource after the insert: updateScrapeState and return
UpdateState(p) ==
    LET r == procs[p]
        s == Src(p)
    IN  /\ r.pc = "upd"
        /\ scrapeState' = [scrapeState EXCEPT ![s] = updateScrapeState(@, r.today, r.ins)]
        /\ SetProc(p, [r EXCEPT !.pc = "ret",
                                !.res = [status |-> "success", inserted |-> r.ins,
                                         skipped |-> r.skp, error |-> ""]])
        /\ settled' = IF Tracked(r)
                      THEN [settled EXCEPT ![s] = IF @ = "seen" THEN "ok"
                                                   ELSE IF @ = "seenFuture" THEN "okFuture" ELSE @]
                      ELSE settled
        /\ UNCHANGED <<today, site, rawArticles, articles, scriptExec, releases, rprocs>>
        /\ UNCHANGED sideVars

\* runNewsScraper: push the result, add the counts, go to the next source
Return(p) ==
    LET r == procs[p]
        r2 == [ClearSource(r) EXCEPT !.nres = r.nres + 1,
                                     !.totIns = r.totIns + r.res.inserted,
                                     !.totSkp = r.totSkp + r.res.skipped]
    IN  /\ r.pc = "ret"
        /\ IF r.idx < Len(SOURCES)
           THEN SetProc(p, [r2 EXCEPT !.pc = "src", !.idx = r.idx + 1])
           ELSE SetProc(p, [r2 EXCEPT !.pc = "fin"])
        /\ UNCHANGED <<today, site, rawArticles, articles, scrapeState, scriptExec, settled, releases, rprocs>>
        /\ UNCHANGED sideVars

\* runNewsScraper returns its results; the caller goes on
Finish(p) ==
    LET r == procs[p]
    IN  /\ r.pc = "fin"
        /\ IF r.mode = "script"
           THEN SetProc(p, IdleProc)
           ELSE SetProc(p, [r EXCEPT !.pc = "p_select", !.idx = 0])
        /\ UNCHANGED <<today, site, rawArticles, articles, scrapeState, scriptExec, settled, releases, rprocs>>
        /\ UNCHANGED sideVars

ScriptStep(p, Outcomes) ==
    \/ ProcessSourceBegin(p)
    \/ Fetch(p, Outcomes)
    \/ InsertCheck(p)
    \/ InsertExec(p)
    \/ InsertDbError(p)
    \/ Commit(p)
    \/ UpdateState(p)
    \/ Return(p)
    \/ Finish(p)

\* ------------------------------------------------------------------------
\* dataProcessingService.js: processRawArticles
\* ------------------------------------------------------------------------

RECURSIVE UnprocessedFrom(_, _)
UnprocessedFrom(rows, i) ==
    IF i > Len(rows) THEN <<>>
    ELSE IF ~rows[i].processed THEN <<i>> \o UnprocessedFrom(rows, i + 1)
    ELSE UnprocessedFrom(rows, i + 1)

\* SELECT * FROM raw_articles WHERE processed = FALSE ORDER BY created_at
Unprocessed(rows) == UnprocessedFrom(rows, 1)

\* variant: the row is left unprocessed
MarkProcessed_Forgets(rows, id) == rows

\* UPDATE raw_articles SET processed = TRUE WHERE id = $1
MarkProcessed(rows, id) == [rows EXCEPT ![id].processed = TRUE]

\* the row INSERT INTO articles stores for a raw article
ArticleRow(raw, cleaned, category) ==
    [url |-> raw.url, title |-> raw.title, pubdate |-> raw.pubdate,
     content |-> IF cleaned # <<>> THEN cleaned ELSE raw.content,
     category |-> category, source |-> raw.source]

\* variant: the statement replaces the latest row of the table
InsertArticle_Overwrites(rows, row) ==
    IF Len(rows) = 0 THEN <<row>> ELSE [rows EXCEPT ![Len(rows)] = row]

\* INSERT INTO articles (...) VALUES (...): the table after the statement
InsertArticle(rows, row) == Append(rows, row)

\* POST /api/scraper/process, or the processing step of a service call
StartProcess(p) ==
    /\ procs[p].pc = "idle"
    /\ SetProc(p, [IdleProc EXCEPT !.pc = "p_select", !.mode = "process"])
    /\ UNCHANGED <<today, site, rawArticles, articles, scrapeState, scriptExec, settled, releases, rprocs>>
    /\ UNCHANGED sideVars

\* processRawArticles: read the unprocessed rows; return when there are none
ProcessSelect(p) ==
    LET r == procs[p]
        ids == Unprocessed(rawArticles)
    IN  /\ r.pc = "p_select"
        /\ IF Len(ids) = 0
           THEN SetProc(p, [r EXCEPT !.pc = "p_done"])
           ELSE SetProc(p, [r EXCEPT !.pc = "p_check", !.plist = ids, !.pk = 1])
        /\ UNCHANGED <<today, site, rawArticles, articles, scrapeState, scriptExec, settled, releases, rprocs>>
        /\ UNCHANGED sideVars

\* processRawArticles: the SELECT fails and the call throws
ProcessSelectFails(p) ==
    LET r == procs[p]
    IN  /\ r.pc = "p_select"
        /\ IF r.mode = "daily"
           THEN SetProc(p, [r EXCEPT !.pc = "d_fail"])
           ELSE SetProc(p, IdleProc)
        /\ settled' = IF Tracked(r) THEN [settled EXCEPT !["processing"] = "none"] ELSE settled
        /\ UNCHANGED <<today, site, rawArticles, articles, scrapeState, scriptExec, releases, rprocs>>
        /\ UNCHANGED sideVars

NextRaw(r) ==
    IF r.pk < Len(r.plist) THEN [r EXCEPT !.pc = "p_check", !.pk = r.pk + 1]
    ELSE [r EXCEPT !.pc = "p_done", !.plist = <<>>, !.pk = 0]

\* processRawArticles steps 1 to 3: validate, classify, existence check
ProcessCheck(p) ==
    LET r == procs[p]
        id == r.plist[r.pk]
        raw == rawArticles[id]
        cleaned == cleanContent(raw.content)
        category == determineCategory(raw.title, IF cleaned # <<>> THEN cleaned ELSE raw.content)
    IN  /\ r.pc = "p_check"
        /\ IF cleaned = <<>> /\ raw.title = ""
           THEN /\ SetProc(p, NextRaw([r EXCEPT !.pRej = r.pRej + 1]))
                /\ rawArticles' = MarkProcessed(rawArticles, id)
           ELSE IF category = NoCategory
           THEN /\ SetProc(p, NextRaw([r EXCEPT !.pRej = r.pRej + 1]))
                /\ rawArticles' = MarkProcessed(rawArticles, id)
           ELSE IF ArticleExists(raw.url)
           THEN /\ SetProc(p, NextRaw([r EXCEPT !.pSkp = r.pSkp + 1]))
                /\ rawArticles' = MarkProcessed(rawArticles, id)
           ELSE /\ SetProc(p, [r EXCEPT !.pc = "p_insert"])
                /\ UNCHANGED rawArticles
        /\ UNCHANGED <<today, site, articles, scrapeState, scriptExec, settled, releases, rprocs>>
        /\ UNCHANGED sideVars

\* processRawArticles step 4: INSERT INTO articles, 23505 counted as
\* skipped, any other error as rejected; then the row is marked processed
ProcessInsert(p) ==
    LET r == procs[p]
        id == r.plist[r.pk]
        raw == rawArticles[id]
        cleaned == cleanContent(raw.content)
        category == determineCategory(raw.title, IF cleaned # <<>> THEN cleaned ELSE raw.content)
    IN  /\ r.pc = "p_insert"
        /\ \/ /\ ArticleUrlTaken(raw.url)
              /\ SetProc(p, NextRaw([r EXCEPT !.pSkp = r.pSkp + 1]))
              /\ UNCHANGED articles
           \/ /\ ~ArticleUrlTaken(raw.url)
              /\ SetProc(p, NextRaw([r EXCEPT !.pIns = r.pIns + 1]))
              /\ articles' = InsertArticle(articles, ArticleRow(raw, cleaned, category))
           \/ /\ SetProc(p, NextRaw([r EXCEPT !.pRej = r.pRej + 1]))
              /\ UNCHANGED articles
        /\ rawArticles' = MarkProcessed(rawArticles, id)
        /\ UNCHANGED <<today, site, scrapeState, scriptExec, settled, releases, rprocs>>
        /\ UNCHANGED sideVars

\* processRawArticles: a query of the loop fails and the call throws
ProcessLoopFails(p) ==
    LET r == procs[p]
    IN  /\ r.pc \in {"p_check", "p_insert"}
        /\ IF r.mode = "daily"
           THEN SetProc(p, [r EXCEPT !.pc = "d_fail"])
           ELSE SetProc(p, IdleProc)
        /\ settled' = IF Tracked(r) THEN [settled EXCEPT !["processing"] = "none"] ELSE settled
        /\ UNCHANGED <<today, site, rawArticles, articles, scrapeState, scriptExec, releases, rprocs>>
        /\ UNCHANGED sideVars

\* processRawArticles returns its counts
ProcessDone(p) ==
    LET r == procs[p]
    IN  /\ r.pc = "p_done"
        /\ IF r.mode = "daily"
           THEN SetProc(p, [r EXCEPT !.pc = "d_record"])
           ELSE SetProc(p, IdleProc)
        /\ settled' = IF Tracked(r) THEN [settled EXCEPT !["processing"] = "ok"] ELSE settled
        /\ UNCHANGED <<today, site, rawArticles, articles, scrapeState, scriptExec, releases, rprocs>>
        /\ UNCHANGED sideVars

ProcessStep(p) ==
    \/ ProcessSelect(p)
    \/ ProcessSelectFails(p)
    \/ ProcessCheck(p)
    \/ ProcessInsert(p)
    \/ ProcessLoopFails(p)
    \/ ProcessDone(p)

\* ------------------------------------------------------------------------
\* scrapeReleases.js: scrapeReleases, one step per await that touches shared
\* state
\* ------------------------------------------------------------------------

Db(p) == databases[rprocs[p].idx]

SetRel(p, r) == rprocs' = [rprocs EXCEPT ![p] = r]

RelResult(name, version, status) == [name |-> name, version |-> version, status |-> status]

\* the rows of releases with this name and version
RowsOf(name, version) == {r \in releases : r.name = name /\ r.version = version}

\* versionExists: COUNT(*) > 0, and false when the query fails
versionExists(name, version, queryOk) ==
    IF queryOk THEN Cardinality(RowsOf(name, version)) > 0 ELSE FALSE

\* variant: the table has no UNIQUE(name, version)
ReleaseKeyTaken_NoConstraint(name, version) == FALSE

\* UNIQUE(name, version) rejects an INSERT of this pair
ReleaseKeyTaken(name, version) == RowsOf(name, version) # {}

\* the row insertRelease stores; copy tells rows of one pair apart
ReleaseRow(name, version, day) ==
    [name |-> name, version |-> version, scraped_date |-> day,
     copy |-> Cardinality(RowsOf(name, version)) + 1]

\* node scrapeReleases.js: table ensured, browser launched, loop entered
StartReleases(p) ==
    /\ rprocs[p].pc = "idle"
    /\ SetRel(p, [RelIdle EXCEPT !.pc = "r_fetch", !.mode = "script", !.idx = 1])
    /\ UNCHANGED <<today, site, rawArticles, articles, scrapeState, scriptExec, procs, settled, releases>>
    /\ UNCHANGED sideVars

\* navigateWithRetry and db.extractVersion: an exhausted fetch gives
\* 'error', a page without a version 'no-version'
ReleaseFetch(p, Pages) ==
    LET r == rprocs[p]
        db == Db(p)
    IN  /\ r.pc = "r_fetch"
        /\ \E outcomes \in PlainOutcomes, found \in Pages :
            LET nav == navigateWithRetry(outcomes)
                version == extractVersion(db, found)
            IN  IF ~nav.ok
                THEN SetRel(p, [r EXCEPT !.pc = "r_ret",
                                         !.res = RelResult(db.name, NoVersion, "error")])
                ELSE IF version = NoVersion
                THEN SetRel(p, [r EXCEPT !.pc = "r_ret",
                                         !.res = RelResult(db.name, NoVersion, "no-version")])
                ELSE SetRel(p, [r EXCEPT !.pc = "r_exists", !.version = version])
        /\ UNCHANGED <<today, site, rawArticles, articles, scrapeState, scriptExec, procs, settled, releases>>
        /\ UNCHANGED sideVars

\* versionExists(db.name, version)
ReleaseExists(p) ==
    LET r == rprocs[p]
        db == Db(p)
    IN  /\ r.pc = "r_exists"
        /\ \E queryOk \in BOOLEAN :
            IF versionExists(db.name, r.version, queryOk)
            THEN SetRel(p, [r EXCEPT !.pc = "r_ret",
                                     !.res = RelResult(db.name, r.version, "exists")])
            ELSE SetRel(p, [r EXCEPT !.pc = "r_insert"])
        /\ UNCHANGED <<today, site, rawArticles, articles, scrapeState, scriptExec, procs, settled, releases>>
        /\ UNCHANGED sideVars

\* insertRelease: the id of the new row, or null on a unique violation and
\* on any other error; null is reported as 'duplicate'
ReleaseInsert(p) ==
    LET r == rprocs[p]
        db == Db(p)
    IN  /\ r.pc = "r_insert"
        /\ \E queryOk \in BOOLEAN :
            IF queryOk /\ ~ReleaseKeyTaken(db.name, r.version)
            THEN /\ releases' = releases \cup {ReleaseRow(db.name, r.version, today)}
                 /\ SetRel(p, [r EXCEPT !.pc = "r_ret",
                                        !.res = RelResult(db.name, r.version, "inserted")])
            ELSE /\ releases' = releases
                 /\ SetRel(p, [r EXCEPT !.pc = "r_ret",
                                        !.res = RelResult(db.name, r.version, "duplicate")])
        /\ UNCHANGED <<today, site, rawArticles, articles, scrapeState, scriptExec, procs, settled>>
        /\ UNCHANGED sideVars

\* the result is pushed; the loop goes to the next database or ends
ReleaseReturn(p) ==
    LET r == rprocs[p]
    IN  /\ r.pc = "r_ret"
        /\ IF r.idx < MaxDbs
           THEN SetRel(p, [r EXCEPT !.pc = "r_fetch", !.idx = r.idx + 1,
                                    !.version = NoVersion, !.res = NoRelResult])
           ELSE IF r.mode \in {"daily", "trigger"}
           THEN SetRel(p, [RelIdle EXCEPT !.pc = "r_fin", !.mode = r.mode])
           ELSE SetRel(p, RelIdle)
        /\ UNCHANGED <<today, site, rawArticles, articles, scrapeState, scriptExec, procs, settled, releases>>
        /\ UNCHANGED sideVars

ReleaseStep(p, Pages) ==
    \/ ReleaseFetch(p, Pages)
    \/ ReleaseExists(p)
    \/ ReleaseInsert(p)
    \/ ReleaseReturn(p)

\* ------------------------------------------------------------------------
\* scraperService.js: triggerDailyScrapers
\* ------------------------------------------------------------------------

\* hasRunToday, for the script_executions row of the script
hasRunToday(exec, t) == exec.has /\ IsoDay(DateOfDay(exec.date)) = t

\* updateExecutionState: INSERT ... ON CONFLICT (script_name) DO UPDATE
updateExecutionState(status, t) == [has |-> TRUE, date |-> t, status |-> status]

\* server start: triggerDailyScrapers, tables ensured
StartDaily(p) ==
    /\ procs[p].pc = "idle"
    /\ rprocs[p].pc = "idle"
    /\ SetProc(p, [IdleProc EXCEPT !.pc = "d_rel", !.mode = "daily"])
    /\ UNCHANGED <<today, site, rawArticles, articles, scrapeState, scriptExec, settled, releases, rprocs>>
    /\ UNCHANGED sideVars

\* runReleasesScraperIfNeeded: skip when the script ran today, else spawn
\* it; the child may fail to start or exit with a non-zero code
DailyReleasesCheck(p) ==
    LET r == procs[p]
    IN  /\ r.pc = "d_rel"
        /\ IF hasRunToday(scriptExec["scrapeReleases"], today)
           THEN /\ SetProc(p, [r EXCEPT !.pc = "d_news"])
                /\ UNCHANGED rprocs
           ELSE \/ /\ SetProc(p, [r EXCEPT !.pc = "d_relrun"])
                   /\ SetRel(p, [RelIdle EXCEPT !.pc = "r_fetch", !.mode = "daily", !.idx = 1])
                \/ /\ SetProc(p, [r EXCEPT !.pc = "d_relfail"])
                   /\ UNCHANGED rprocs
        /\ UNCHANGED <<today, site, rawArticles, articles, scrapeState, scriptExec, settled, releases>>
        /\ UNCHANGED sideVars

\* runReleasesScraperIfNeeded: the script exited with code 0
DailyReleasesDone(p) ==
    LET r == procs[p]
    IN  /\ r.pc = "d_relrun"
        /\ rprocs[p].pc = "r_fin"
        /\ scriptExec' = [scriptExec EXCEPT
                            !["scrapeReleases"] = updateExecutionState("success", today)]
        /\ SetProc(p, [r EXCEPT !.pc = "d_news"])
        /\ SetRel(p, RelIdle)
        /\ UNCHANGED <<today, site, rawArticles, articles, scrapeState, settled, releases>>
        /\ UNCHANGED sideVars

\* runReleasesScraperIfNeeded: the catch block
DailyReleasesFailed(p) ==
    LET r == procs[p]
    IN  /\ r.pc = "d_relfail"
        /\ scriptExec' = [scriptExec EXCEPT
                            !["scrapeReleases"] = updateExecutionState("error", today)]
        /\ SetProc(p, [r EXCEPT !.pc = "d_news"])
        /\ UNCHANGED <<today, site, rawArticles, articles, scrapeState, settled, releases, rprocs>>
        /\ UNCHANGED sideVars

\* runNewsScraperIfNeeded: skip when the script ran today, else spawn it;
\* the child may fail to start or exit with a non-zero code
DailyNewsCheck(p) ==
    LET r == procs[p]
    IN  /\ r.pc = "d_news"
        /\ IF hasRunToday(scriptExec["scrapeNews"], today)
           THEN SetProc(p, IdleProc)
           ELSE \/ SetProc(p, [r EXCEPT !.pc = "src", !.idx = 1])
                \/ SetProc(p, [r EXCEPT !.pc = "d_fail"])
        /\ UNCHANGED <<today, site, rawArticles, articles, scrapeState, scriptExec, settled, releases, rprocs>>
        /\ UNCHANGED sideVars

\* runNewsScraperIfNeeded: script and processing done, the run is recorded
DailyNewsDone(p) ==
    LET r == procs[p]
    IN  /\ r.pc = "d_record"
        /\ scriptExec' = [scriptExec EXCEPT
                            !["scrapeNews"] = updateExecutionState("success", today)]
        /\ SetProc(p, IdleProc)
        /\ UNCHANGED <<today, site, rawArticles, articles, scrapeState, settled, releases, rprocs>>
        /\ UNCHANGED sideVars

\* runNewsScraperIfNeeded: the catch block
DailyNewsFailed(p) ==
    LET r == procs[p]
    IN  /\ r.pc = "d_fail"
        /\ scriptExec' = [scriptExec EXCEPT
                            !["scrapeNews"] = updateExecutionState("error", today)]
        /\ SetProc(p, IdleProc)
        /\ UNCHANGED <<today, site, rawArticles, articles, scrapeState, settled, releases, rprocs>>
        /\ UNCHANGED sideVars

DailyStep(p) ==
    \/ DailyReleasesCheck(p)
    \/ DailyReleasesDone(p)
    \/ DailyReleasesFailed(p)
    \/ DailyNewsCheck(p)
    \/ DailyNewsDone(p)
    \/ DailyNewsFailed(p)

\* ------------------------------------------------------------------------
\* Specifications
\* ------------------------------------------------------------------------

\* One worker: script runs and processing calls one after the other, while
\* the clock advances and the pages change.
Next ==
    \/ AdvanceDay
    \/ \E c \in CardIds : Publish(c)
    \/ \E p \in {1} :
        \/ StartScript(p, "script")
        \/ StartProcess(p)
        \/ ScriptStep(p, AllOutcomes)
        \/ ProcessStep(p)

Spec == Init /\ [][Next]_vars

\* Two workers on one day against pages that already show every card:
\* script runs and processing calls interleave statement by statement.
InitConc ==
    /\ today = 1
    /\ site = CardIds
    /\ rawArticles = <<>>
    /\ articles = <<>>
    /\ scrapeState = [s \in SourceIds |-> NoState]
    /\ scriptExec = [n \in ScriptNames |-> NoExec]
    /\ procs = [p \in Procs |-> IdleProc]
    /\ settled = [s \in SettledKeys |-> "none"]
    /\ releases = {}
    /\ rprocs = [p \in Procs |-> RelIdle]
    /\ currentScrapingJob = IdleJob
    /\ manualCounts = [d \in 1..MaxDay |-> 0]
    /\ reqs = [p \in Procs |-> IdleReq]
    /\ fx = NoCall
    /\ notifications = {}

NextConc ==
    \E p \in Procs :
        \/ StartScript(p, "script")
        \/ StartProcess(p)
        \/ ScriptStep(p, PlainOutcomes)
        \/ ProcessStep(p)

SpecConc == InitConc /\ [][NextConc]_vars

\* every variable but fx as the program starts with it
Quiet ==
    /\ today = 1
    /\ site = {}
    /\ rawArticles = <<>>
    /\ articles = <<>>
    /\ scrapeState = [s \in SourceIds |-> NoState]
    /\ scriptExec = [n \in ScriptNames |-> NoExec]
    /\ procs = [p \in Procs |-> IdleProc]
    /\ settled = [s \in SettledKeys |-> "none"]
    /\ releases = {}
    /\ rprocs = [p \in Procs |-> RelIdle]
    /\ currentScrapingJob = IdleJob
    /\ manualCounts = [d \in 1..MaxDay |-> 0]
    /\ reqs = [p \in Procs |-> IdleReq]
    /\ notifications = {}

QuietVars == <<today, site, rawArticles, articles, scrapeState, scriptExec, procs, settled,
               releases, rprocs, currentScrapingJob, manualCounts, reqs, notifications>>

\* the date texts an extractor can hand to the filter: none, an unparseable
\* one, a date in one of the three formats, an ISO timestamp later in the day
FilterTexts ==
    {DText("missing", 0, 0), DText("bad", 0, 0)}
    \cup {DText(k, d, 0) : k \in {"iso", "dmy", "mdy"}, d \in 1..MaxFilterDay}
    \cup {DText("iso", d, 1) : d \in 1..MaxFilterDay}

\* the watermarks processSource can hold when it filters on day t: none, or
\* an earlier day (a source scraped on day t is skipped before the filter)
FilterLasts(t) == {NoLast} \cup {[has |-> TRUE, date |-> d] : d \in 1..(t - 1)}

\* the filter of processSource applied to a page showing one card
FilterCalls ==
    UNION {{[fn |-> "filter", done |-> FALSE, t |-> t, last |-> l, out |-> <<>>,
             card |-> [url |-> "u1", title |-> "New Redis Cluster features",
                       dateText |-> x, content |-> <<>>, listed |-> {}]]
            : x \in FilterTexts, l \in FilterLasts(t)} : t \in 1..MaxFilterDay}

InitFilter == Quiet /\ fx \in FilterCalls

ApplyFilter ==
    /\ fx.fn = "filter"
    /\ ~fx.done
    /\ fx' = [fx EXCEPT !.done = TRUE,
                        !.out = FilterArticles(<<fx.card>>, fx.t, fx.last)]
    /\ UNCHANGED QuietVars

NextFilter == ApplyFilter

SpecFilter == InitFilter /\ [][NextFilter]_vars

\* Either the filter is applied to one card, or scheduled runs follow one
\* another over the days while cards are published, as in Spec.
InitBlind ==
    /\ today = 1
    /\ site = {}
    /\ rawArticles = <<>>
    /\ articles = <<>>
    /\ scrapeState = [s \in SourceIds |-> NoState]
    /\ scriptExec = [n \in ScriptNames |-> NoExec]
    /\ procs = [p \in Procs |-> IdleProc]
    /\ settled = [s \in SettledKeys |-> "none"]
    /\ releases = {}
    /\ rprocs = [p \in Procs |-> RelIdle]
    /\ currentScrapingJob = IdleJob
    /\ manualCounts = [d \in 1..MaxDay |-> 0]
    /\ reqs = [p \in Procs |-> IdleReq]
    /\ notifications = {}
    /\ fx \in {NoCall} \cup FilterCalls

NextBlind ==
    \/ ApplyFilter
    \/ fx = NoCall /\ Next

SpecBlind == InitBlind /\ [][NextBlind]_vars

\* ------------------------------------------------------------------------
\* The live scraper (src/unnamed/part_001): insertArticles classifies and
\* stores a filtered batch in one transaction
\* ------------------------------------------------------------------------

\* the ordered category rules of the live scraper
LiveCategoryRules == <<
    [category |-> "Key-Value",
     words |-> {"redis", "riak", "memcached", "key-?value", "dynamodb", "aerospike",
                "valkey"}],
    [category |-> "Columnar",
     words |-> {"cassandra", "clickhouse", "hbase", "columnar", "column", "wide column",
                "scylladb", "bigtable"}],
    [category |-> "Graph",
     words |-> {"neo4j", "tigergraph", "graph database", "orientdb", "arangodb", "titan",
                "dgraph", "neptune"}],
    [category |-> "Document",
     words |-> {"mongodb", "couchdb", "couchbase", "document database", "documentdb",
                "firestore", "ravendb"}],
    [category |-> "Distributed SQL",
     words |-> {"cockroachdb", "tidb", "yugabytedb", "distributed sql", "newsql", "vitess",
                "spanner", "planetscale", "neon"}]
>>

RECURSIVE FirstLiveRule(_, _)
FirstLiveRule(found, i) ==
    IF i > Len(LiveCategoryRules) THEN NoCategory
    ELSE IF found \cap LiveCategoryRules[i].words # {} THEN LiveCategoryRules[i].category
    ELSE FirstLiveRule(found, i + 1)

\* determineCategory(title, content, sourceCategory) of the live scraper
determineCategoryLive(title, content) ==
    FirstLiveRule(KeywordsIn(title) \cup ContentWords(content), 1)

\* the counts insertArticles starts with, and the urls it sees in articles
NoCounts == [inserted |-> 0, skipped |-> 0, rejected |-> 0]

\* variant: a rejected article is not counted
CountRejected_Forgets(acc) == acc

\* rejected++
CountRejected(acc) == [acc EXCEPT !.rejected = @ + 1]

RECURSIVE InsertArticlesFrom(_, _, _, _)
\* the loop of insertArticles from article i on: urls are the urls the
\* transaction sees in articles, acc the counts so far
InsertArticlesFrom(batch, i, urls, acc) ==
    IF i > Len(batch) THEN acc
    ELSE IF determineCategoryLive(batch[i].title, batch[i].content) = NoCategory
    THEN InsertArticlesFrom(batch, i + 1, urls, CountRejected(acc))
    ELSE IF batch[i].url \in urls
    THEN InsertArticlesFrom(batch, i + 1, urls, [acc EXCEPT !.skipped = @ + 1])
    ELSE InsertArticlesFrom(batch, i + 1, urls \cup {batch[i].url},
                            [acc EXCEPT !.inserted = @ + 1])

\* insertArticles(articles, sourceCategory) when the transaction commits
insertArticles(batch, urls) == InsertArticlesFrom(batch, 1, urls, NoCounts)

\* the batches the live scraper can hand over and the urls already stored
InsertCalls ==
    {[fn |-> "insertArticles", done |-> FALSE, batch |-> b, urls |-> u, out |-> NoCounts]
     : b \in UNION {[1..k -> {Catalog[c] : c \in CardIds}] : k \in 0..MaxBatch},
       u \in SUBSET {Catalog[c].url : c \in CardIds}}

ApplyInsertArticles ==
    /\ fx.fn = "insertArticles"
    /\ ~fx.done
    /\ fx' = [fx EXCEPT !.done = TRUE, !.out = insertArticles(fx.batch, fx.urls)]
    /\ UNCHANGED QuietVars

\* Either the live insertArticles is applied to a batch, or two workers run
\* the staged pipeline as in SpecConc.
InitCounts ==
    /\ today = 1
    /\ site = CardIds
    /\ rawArticles = <<>>
    /\ articles = <<>>
    /\ scrapeState = [s \in SourceIds |-> NoState]
    /\ scriptExec = [n \in ScriptNames |-> NoExec]
    /\ procs = [p \in Procs |-> IdleProc]
    /\ settled = [s \in SettledKeys |-> "none"]
    /\ releases = {}
    /\ rprocs = [p \in Procs |-> RelIdle]
    /\ currentScrapingJob = IdleJob
    /\ manualCounts = [d \in 1..MaxDay |-> 0]
    /\ reqs = [p \in Procs |-> IdleReq]
    /\ notifications = {}
    /\ fx \in {NoCall} \cup InsertCalls

NextCounts ==
    \/ ApplyInsertArticles
    \/ fx = NoCall /\ NextConc

SpecCounts == InitCounts /\ [][NextCounts]_vars

\* the titles a raw article can carry
ClassifyTitles ==
    {"New Redis Cluster features", "Weekly roundup", "Graph traversal benchmarks for Neo4j",
     "Redis vs Cassandra at scale", "PostgreSQL MEETS MONGODB"}

\* the bodies a raw article can carry: none, a short paragraph naming Neo4j,
\* a newsletter line naming Redis before a long paragraph on Cassandra, a
\* long paragraph naming no technology
ClassifyContents ==
    {<<>>,
     <<Paragraph(20, 17, FALSE, {"neo4j"})>>,
     <<Paragraph(40, 34, TRUE, {"redis"}), Paragraph(120, 100, FALSE, {"cassandra"})>>,
     <<Paragraph(120, 100, FALSE, {})>>}

\* a row of raw_articles as the scrapers leave it
ClassifyRow(url, title, content) ==
    [url |-> url, title |-> title, pubdate |-> Ts(1, 0), content |-> content,
     source |-> "infoq-nosql", processed |-> FALSE]

\* raw_articles holds one or two unprocessed rows and articles is empty
InitClassify ==
    /\ today = 1
    /\ site = {}
    /\ \E t1 \in ClassifyTitles, c1 \in ClassifyContents :
          \/ rawArticles = <<ClassifyRow("u1", t1, c1)>>
          \/ \E t2 \in ClassifyTitles, c2 \in ClassifyContents :
                rawArticles = <<ClassifyRow("u1", t1, c1), ClassifyRow("u2", t2, c2)>>
    /\ articles = <<>>
    /\ scrapeState = [s \in SourceIds |-> NoState]
    /\ scriptExec = [n \in ScriptNames |-> NoExec]
    /\ procs = [p \in Procs |-> IdleProc]
    /\ settled = [s \in SettledKeys |-> "none"]
    /\ releases = {}
    /\ rprocs = [p \in Procs |-> RelIdle]
    /\ currentScrapingJob = IdleJob
    /\ manualCounts = [d \in 1..MaxDay |-> 0]
    /\ reqs = [p \in Procs |-> IdleReq]
    /\ fx = NoCall
    /\ notifications = {}

NextClassify ==
    \/ StartProcess(1)
    \/ ProcessStep(1)

SpecClassify == InitClassify /\ [][NextClassify]_vars

\* version strings of the shapes the extractor patterns capture
VersionPool == {<<7, 2>>, <<8, 0>>, <<8, 0, 0>>, <<8, 0, 1>>, <<5, 26, 19>>, <<2025, 11, 2>>}

\* the versions the patterns of an extractor can capture: MongoDB captures
\* \d+\.\d+, TiDB \d+\.\d+\.\d+, the others two or three components
CandidatesOf(db) ==
    IF db.name = "MongoDB" THEN {v \in VersionPool : Len(v) = 2}
    ELSE IF db.name = "TiDB" THEN {v \in VersionPool : Len(v) = 3}
    ELSE VersionPool

\* the sequences of at most n elements of S
SeqsUpTo(S, n) == UNION {[1..k -> S] : k \in 0..n}

\* db.extractVersion applied to the versions found on a page, in page order
ExtractCalls ==
    UNION {{[fn |-> "extract", done |-> FALSE, db |-> i, found |-> f, out |-> NoVersion]
            : f \in SeqsUpTo(CandidatesOf(databases[i]), MaxFound)}
           : i \in 1..Len(databases)}

InitVersion == Quiet /\ fx \in ExtractCalls

ApplyExtract ==
    /\ fx.fn = "extract"
    /\ ~fx.done
    /\ fx' = [fx EXCEPT !.done = TRUE,
                        !.out = extractVersion(databases[fx.db], fx.found)]
    /\ UNCHANGED QuietVars

NextVersion == ApplyExtract

SpecVersion == InitVersion /\ [][NextVersion]_vars

\* ------------------------------------------------------------------------
\* scraperService.js: manual triggers, one step per await.  The server is
\* one Node process: the code between two awaits runs without interleaving.
\* The rows the child scripts write are the subject of the specifications
\* above; here a script run is the promise runScript settles.
\* ------------------------------------------------------------------------

\* the variables no manual trigger step reads or writes
JobQuietVars == <<site, rawArticles, articles, scrapeState, scriptExec, procs, settled,
                  releases, rprocs, fx, notifications>>

SetReq(p, r) == reqs' = [reqs EXCEPT ![p] = r]

\* the service call returns or throws: the controller sends the response
\* and the call is over
Respond(r, response) == [IdleReq EXCEPT !.response = response]

\* the call returns while the background job it started goes on
RespondStarted(r, part) ==
    [r EXCEPT !.pc = "idle", !.kind = "none", !.response = "started", !.bg = part]

\* the background job of a request is over
BackgroundOver(r) == [IdleReq EXCEPT !.response = r.response]

\* getManualExecutionCount: the count stored for today, 0 without a row
getManualExecutionCount == manualCounts[today]

\* canExecuteManually
canExecuteManually == getManualExecutionCount < MAX_DAILY_EXECUTIONS

\* variant: the upsert adds 2
incrementExecutionCount_Twice == manualCounts' = [manualCounts EXCEPT ![today] = @ + 2]

\* incrementExecutionCount: INSERT ... ON CONFLICT DO UPDATE SET count + 1
incrementExecutionCount == manualCounts' = [manualCounts EXCEPT ![today] = @ + 1]

\* variant: the status is set and the running flag is left on
JobCompleted_StillRunning(job) == [job EXCEPT !.status = "completed"]

\* the end of the try block of runScrapingInBackground
JobCompleted(job) == [job EXCEPT !.status = "completed", !.isRunning = FALSE]

\* the first await of runScrapingInBackground for the options of a request
FirstPart(r) ==
    IF r.scrapeReleases THEN "bg_releases"
    ELSE IF r.scrapeNews THEN "bg_news"
    ELSE "none"

\* POST /api/scraper/start: startNonBlockingScraping up to its first await
NbStart(p, scrapeNews, scrapeReleases) ==
    LET r == reqs[p]
    IN  /\ r.pc = "idle"
        /\ r.bg = "none"
        /\ IF currentScrapingJob.isRunning
           THEN SetReq(p, Respond(r, "already"))
           ELSE SetReq(p, [IdleReq EXCEPT !.pc = "nb_can", !.kind = "nonblocking",
                                          !.scrapeNews = scrapeNews,
                                          !.scrapeReleases = scrapeReleases])
        /\ UNCHANGED <<today, currentScrapingJob, manualCounts>>
        /\ UNCHANGED JobQuietVars

\* startNonBlockingScraping: canExecuteManually answers; under the limit the
\* job state is set to running and incrementExecutionCount is called
NbCan(p) ==
    LET r == reqs[p]
    IN  /\ r.pc = "nb_can"
        /\ \/ /\ canExecuteManually
              /\ currentScrapingJob' = [isRunning |-> TRUE, jobId |-> p, status |-> "running"]
              /\ SetReq(p, [r EXCEPT !.pc = "nb_inc"])
           \/ /\ ~canExecuteManually
              /\ SetReq(p, [r EXCEPT !.pc = "nb_limit"])
              /\ UNCHANGED currentScrapingJob
           \/ /\ SetReq(p, Respond(r, "error"))
              /\ UNCHANGED currentScrapingJob
        /\ UNCHANGED <<today, manualCounts>>
        /\ UNCHANGED JobQuietVars

\* startNonBlockingScraping: getRemainingExecutions answers on the limit
\* branch, or throws
NbLimit(p) ==
    LET r == reqs[p]
    IN  /\ r.pc = "nb_limit"
        /\ \/ SetReq(p, Respond(r, "limit"))
           \/ SetReq(p, Respond(r, "error"))
        /\ UNCHANGED <<today, currentScrapingJob, manualCounts>>
        /\ UNCHANGED JobQuietVars

\* startNonBlockingScraping: incrementExecutionCount answers, or throws
NbInc(p) ==
    LET r == reqs[p]
    IN  /\ r.pc = "nb_inc"
        /\ \/ /\ incrementExecutionCount
              /\ SetReq(p, [r EXCEPT !.pc = "nb_rem"])
           \/ /\ SetReq(p, Respond(r, "error"))
              /\ UNCHANGED manualCounts
        /\ UNCHANGED <<today, currentScrapingJob>>
        /\ UNCHANGED JobQuietVars

\* startNonBlockingScraping: getRemainingExecutions answers and
\* runScrapingInBackground is called, which runs to its first await (to its
\* end when both options are off); or getRemainingExecutions throws
NbRem(p) ==
    LET r == reqs[p]
    IN  /\ r.pc = "nb_rem"
        /\ \/ /\ FirstPart(r) # "none"
              /\ SetReq(p, RespondStarted(r, FirstPart(r)))
              /\ UNCHANGED currentScrapingJob
           \/ /\ FirstPart(r) = "none"
              /\ SetReq(p, Respond(r, "started"))
              /\ currentScrapingJob' = JobCompleted(currentScrapingJob)
           \/ /\ SetReq(p, Respond(r, "error"))
              /\ UNCHANGED currentScrapingJob
        /\ UNCHANGED <<today, manualCounts>>
        /\ UNCHANGED JobQuietVars

\* runScrapingInBackground: the releases part settles, its error caught
BgReleases(p) ==
    LET r == reqs[p]
    IN  /\ r.bg = "bg_releases"
        /\ IF r.scrapeNews
           THEN /\ SetReq(p, [r EXCEPT !.bg = "bg_news"])
                /\ UNCHANGED currentScrapingJob
           ELSE /\ SetReq(p, BackgroundOver(r))
                /\ currentScrapingJob' = JobCompleted(currentScrapingJob)
        /\ UNCHANGED <<today, manualCounts>>
        /\ UNCHANGED JobQuietVars

\* runScrapingInBackground: the news part settles, its error caught, and the
\* job state is set to completed
BgNews(p) ==
    LET r == reqs[p]
    IN  /\ r.bg = "bg_news"
        /\ SetReq(p, BackgroundOver(r))
        /\ currentScrapingJob' = JobCompleted(currentScrapingJob)
        /\ UNCHANGED <<today, manualCounts>>
        /\ UNCHANGED JobQuietVars

\* POST /api/scraper/trigger: triggerManualScraping up to its first await
BlStart(p, scrapeNews, scrapeReleases) ==
    LET r == reqs[p]
    IN  /\ r.pc = "idle"
        /\ r.bg = "none"
        /\ SetReq(p, [IdleReq EXCEPT !.pc = "bl_can", !.kind = "blocking",
                                     !.scrapeNews = scrapeNews,
                                     !.scrapeReleases = scrapeReleases])
        /\ UNCHANGED <<today, currentScrapingJob, manualCounts>>
        /\ UNCHANGED JobQuietVars

\* triggerManualScraping: canExecuteManually answers, or throws
BlCan(p) ==
    LET r == reqs[p]
    IN  /\ r.pc = "bl_can"
        /\ \/ /\ canExecuteManually
              /\ SetReq(p, [r EXCEPT !.pc = "bl_inc"])
           \/ /\ ~canExecuteManually
              /\ SetReq(p, [r EXCEPT !.pc = "bl_limit"])
           \/ SetReq(p, Respond(r, "error"))
        /\ UNCHANGED <<today, currentScrapingJob, manualCounts>>
        /\ UNCHANGED JobQuietVars

\* triggerManualScraping: getRemainingExecutions answers on the limit
\* branch, or throws
BlLimit(p) ==
    LET r == reqs[p]
    IN  /\ r.pc = "bl_limit"
        /\ \/ SetReq(p, Respond(r, "limit"))
           \/ SetReq(p, Respond(r, "error"))
        /\ UNCHANGED <<today, currentScrapingJob, manualCounts>>
        /\ UNCHANGED JobQuietVars

\* the await that follows the counter update of triggerManualScraping
AfterCount(r) ==
    IF r.scrapeReleases THEN "bl_releases"
    ELSE IF r.scrapeNews THEN "bl_news"
    ELSE "bl_rem"

\* triggerManualScraping: incrementExecutionCount answers, or throws
BlInc(p) ==
    LET r == reqs[p]
    IN  /\ r.pc = "bl_inc"
        /\ \/ /\ incrementExecutionCount
              /\ SetReq(p, [r EXCEPT !.pc = AfterCount(r)])
           \/ /\ SetReq(p, Respond(r, "error"))
              /\ UNCHANGED manualCounts
        /\ UNCHANGED <<today, currentScrapingJob>>
        /\ UNCHANGED JobQuietVars

\* triggerManualScraping: the releases part settles, its error caught
BlReleases(p) ==
    LET r == reqs[p]
    IN  /\ r.pc = "bl_releases"
        /\ SetReq(p, [r EXCEPT !.pc = IF r.scrapeNews THEN "bl_news" ELSE "bl_rem"])
        /\ UNCHANGED <<today, currentScrapingJob, manualCounts>>
        /\ UNCHANGED JobQuietVars

\* triggerManualScraping: the news part settles, its error caught
BlNews(p) ==
    LET r == reqs[p]
    IN  /\ r.pc = "bl_news"
        /\ SetReq(p, [r EXCEPT !.pc = "bl_rem"])
        /\ UNCHANGED <<today, currentScrapingJob, manualCounts>>
        /\ UNCHANGED JobQuietVars

\* triggerManualScraping: getRemainingExecutions answers and the results
\* are returned, or it throws
BlRem(p) ==
    LET r == reqs[p]
    IN  /\ r.pc = "bl_rem"
        /\ \/ SetReq(p, Respond(r, "done"))
           \/ SetReq(p, Respond(r, "error"))
        /\ UNCHANGED <<today, currentScrapingJob, manualCounts>>
        /\ UNCHANGED JobQuietVars

\* a step of a service call in progress
RequestStep(p) ==
    \/ NbCan(p)
    \/ NbLimit(p)
    \/ NbInc(p)
    \/ NbRem(p)
    \/ BlCan(p)
    \/ BlLimit(p)
    \/ BlInc(p)
    \/ BlReleases(p)
    \/ BlNews(p)
    \/ BlRem(p)

\* a step of a background job
BackgroundStep(p) ==
    \/ BgReleases(p)
    \/ BgNews(p)

\* Clients send manual trigger requests, two at a time at most, while the
\* days pass.
NextJob ==
    \/ AdvanceDay
    \/ \E p \in Procs :
        \/ \E scrapeNews \in BOOLEAN, scrapeReleases \in BOOLEAN :
              \/ NbStart(p, scrapeNews, scrapeReleases)
              \/ BlStart(p, scrapeNews, scrapeReleases)
        \/ RequestStep(p)
        \/ BackgroundStep(p)

SpecJob == Init /\ [][NextJob]_vars

\* The event loop runs every continuation whose promise has settled, and
\* every query and every child script settles.
SpecJobFair ==
    /\ SpecJob
    /\ \A p \in Procs : WF_vars(RequestStep(p)) /\ WF_vars(BackgroundStep(p))

\* ------------------------------------------------------------------------
\* notificationService.js and the controllers that call it: the releases
\* part of a trigger followed by createReleaseNotifications, and GET
\* /api/notifications with generateNotificationsFromTodaysReleases
\* ------------------------------------------------------------------------

\* `${r.name}:${r.version}`
ReleaseKey(r) == <<r.name, r.version>>

\* the notifications of type 'release' for this name and version
NotificationsOf(name, version) ==
    {n \in notifications : n.name = name /\ n.version = version}

\* the row createReleaseNotification stores; copy tells rows of one release
\* apart
NotificationRow(release) ==
    [type |-> "release", name |-> release.name, version |-> release.version,
     copy |-> Cardinality(NotificationsOf(release.name, release.version)) + 1]

\* the releases of today that have no notification yet: the SELECT of
\* generateNotificationsFromTodaysReleases
Unnotified(t) ==
    {r \in releases : r.scraped_date = t /\ NotificationsOf(r.name, r.version) = {}}

\* the variables no notification step reads or writes
NotifyQuietVars == <<today, site, rawArticles, articles, scrapeState, scriptExec, procs,
                     settled, releases, currentScrapingJob, manualCounts, fx>>

\* the releases part of triggerDailyScrapers or triggerManualScraping:
\* the pairs in releases are read and the child scrapeReleases.js is spawned
TrStart(p) ==
    /\ reqs[p].pc = "idle"
    /\ reqs[p].bg = "none"
    /\ rprocs[p].pc = "idle"
    /\ SetReq(p, [IdleReq EXCEPT !.pc = "tr_run", !.kind = "trigger",
                                 !.before = {ReleaseKey(r) : r \in releases}])
    /\ SetRel(p, [RelIdle EXCEPT !.pc = "r_fetch", !.mode = "trigger", !.idx = 1])
    /\ UNCHANGED <<notifications>>
    /\ UNCHANGED NotifyQuietVars

\* the child has exited: releases is read again, the rows whose pair was
\* not there before are the new releases, and the controller hands them to
\* createReleaseNotifications
TrAfter(p) ==
    LET r == reqs[p]
        newReleases == {x \in releases : ReleaseKey(x) \notin r.before}
    IN  /\ r.pc = "tr_run"
        /\ rprocs[p].pc = "r_fin"
        /\ IF newReleases = {}
           THEN SetReq(p, Respond(r, "done"))
           ELSE SetReq(p, [r EXCEPT !.pc = "tr_notify", !.before = {}, !.todo = newReleases])
        /\ SetRel(p, RelIdle)
        /\ UNCHANGED <<notifications>>
        /\ UNCHANGED NotifyQuietVars

\* the child exited with a non-zero code or the second query failed: the
\* catch block of the releases part, no notification is created
TrFails(p) ==
    LET r == reqs[p]
    IN  /\ r.pc = "tr_run"
        /\ rprocs[p].pc = "r_fin"
        /\ SetReq(p, Respond(r, "done"))
        /\ SetRel(p, RelIdle)
        /\ UNCHANGED <<notifications>>
        /\ UNCHANGED NotifyQuietVars

\* GET /api/notifications: generateNotificationsFromTodaysReleases selects
\* the releases of today without a notification
GnStart(p) ==
    LET r == reqs[p]
    IN  /\ r.pc = "idle"
        /\ r.bg = "none"
        /\ rprocs[p].pc = "idle"
        /\ IF Unnotified(today) = {}
           THEN SetReq(p, Respond(r, "listed"))
           ELSE SetReq(p, [IdleReq EXCEPT !.pc = "gn_notify", !.kind = "notifications",
                                          !.todo = Unnotified(today)])
        /\ UNCHANGED <<notifications, rprocs>>
        /\ UNCHANGED NotifyQuietVars

\* createReleaseNotification for the next release of the loop: the INSERT
\* stores a row, or fails and null is returned
CreateNext(p, response) ==
    LET r == reqs[p]
    IN  \E release \in r.todo :
            /\ \/ notifications' = notifications \cup {NotificationRow(release)}
               \/ notifications' = notifications
            /\ IF r.todo = {release}
               THEN SetReq(p, Respond(r, response))
               ELSE SetReq(p, [r EXCEPT !.todo = @ \ {release}])

\* createReleaseNotifications, called by the trigger controllers
TrNotify(p) ==
    /\ reqs[p].pc = "tr_notify"
    /\ CreateNext(p, "done")
    /\ UNCHANGED <<rprocs>>
    /\ UNCHANGED NotifyQuietVars

\* the loop of generateNotificationsFromTodaysReleases
GnNotify(p) ==
    /\ reqs[p].pc = "gn_notify"
    /\ CreateNext(p, "listed")
    /\ UNCHANGED <<rprocs>>
    /\ UNCHANGED NotifyQuietVars

NotifyStep(p) ==
    \/ TrAfter(p)
    \/ TrFails(p)
    \/ TrNotify(p)
    \/ GnNotify(p)

\* Two clients trigger the scrapers and read the notifications while the
\* days pass.
NextNotify ==
    \/ AdvanceDay
    \/ \E p \in Procs :
        \/ TrStart(p)
        \/ GnStart(p)
        \/ NotifyStep(p)
        \/ ReleaseStep(p, SinglePages)

SpecNotify == Init /\ [][NextNotify]_vars

\* Two workers run scrapeReleases.js while the days pass.
NextRel ==
    \/ AdvanceDay
    \/ \E p \in Procs :
        \/ StartReleases(p)
        \/ ReleaseStep(p, ReleasePages)

SpecRel == Init /\ [][NextRel]_vars

\* The server is started again and again against pages that show every
\* card: each start runs triggerDailyScrapers to its end.
NextDaily ==
    \/ AdvanceDay
    \/ \E p \in {1} :
        \/ StartDaily(p)
        \/ DailyStep(p)
        \/ ReleaseStep(p, SinglePages)
        \/ ScriptStep(p, PlainOutcomes)
        \/ ProcessStep(p)

SpecDaily == InitConc /\ [][NextDaily]_vars

\* Two calls of triggerDailyScrapers (the server start and POST
\* /api/scraper/trigger, or two such requests) run side by side within one
\* day against pages that show every card.
NextDailyConc ==
    \E p \in Procs :
        \/ StartDaily(p)
        \/ DailyStep(p)
        \/ ReleaseStep(p, SinglePages)
        \/ ScriptStep(p, PlainOutcomes)
        \/ ProcessStep(p)

SpecDailyConc == InitConc /\ [][NextDailyConc]_vars

\* One worker runs the news steps of a manual trigger (the script, then
\* processRawArticles) again and again while the days pass and the pages
\* change.
NextPipe ==
    \/ AdvanceDay
    \/ \E c \in CardIds : Publish(c)
    \/ \E p \in {1} :
        \/ StartScript(p, "pipeline")
        \/ ScriptStep(p, PlainOutcomes)
        \/ ProcessStep(p)

SpecPipe == Init /\ [][NextPipe]_vars

\* ------------------------------------------------------------------------
\* Properties
\* ------------------------------------------------------------------------

\* the step of worker p in which processSource returns
Returns(p) == procs[p].pc # "ret" /\ procs'[p].pc = "ret"

\* the tables the news pipeline writes are left as they are
TablesUnchanged ==
    /\ rawArticles' = rawArticles
    /\ articles' = articles
    /\ scrapeState' = scrapeState

\* C1: daily skip.  A processSource call that finds the persisted
\* last_scrape_date of its source equal to today returns 'skipped' at once:
\* no page.goto, no write to raw_articles, articles or scrape_state.  A run
\* that returns 'success' has recorded the day it ran on, and a row that
\* names today keeps naming it while the day lasts, so a second call on that
\* day is skipped.
C1_DailySkipStep ==
    \A p \in Procs :
        /\ (/\ procs[p].pc = "src"
            /\ procs'[p].pc # "src"
            /\ scrapeState[Src(p)].has
            /\ scrapeState[Src(p)].date = today)
           => /\ procs'[p].pc = "ret"
              /\ procs'[p].res.status = "skipped"
              /\ procs'[p].nav.attempts = 0
              /\ procs'[p].pending = <<>>
              /\ TablesUnchanged
        /\ (Returns(p) /\ procs'[p].res.status = "success")
           => /\ scrapeState'[Src(p)].has
              /\ scrapeState'[Src(p)].date = procs[p].today
        /\ \A s \in SourceIds :
              (scrapeState[s].has /\ scrapeState[s].date = today /\ today' = today)
              => (scrapeState'[s].has /\ scrapeState'[s].date = today)

C1_DailySkip == [][C1_DailySkipStep]_vars

\* a second call on the day of a successful run has returned 'skipped'
C1_Witness ==
    \E p \in Procs :
        /\ procs[p].pc = "ret"
        /\ procs[p].res.status = "skipped"
        /\ procs[p].nav.attempts = 0
        /\ scrapeState[Src(p)].date = today
        /\ Len(rawArticles) > 0

\* C9: navigateWithRetry makes at most 3 attempts, stops at the first
\* successful one, sleeps attempt * 2000 ms after each failed attempt but the
\* last (2000, then 4000), and fails right after the 3rd failed attempt.
C9_RetrySchedule ==
    \A p \in Procs :
        LET n == procs[p].nav
        IN  n.attempts > 0 =>
              /\ n.attempts <= 3
              /\ n.first # 0 => (n.ok /\ n.attempts = n.first)
              /\ n.first = 0 => (~n.ok /\ n.attempts = 3)
              /\ n.waits = [i \in 1..(n.attempts - 1) |-> 2000 * i]
              /\ ~n.ok <=> (procs[p].res.error = "navigation")

\* a fetch failed three times: two sleeps, 2000 and 4000
C9_Witness ==
    \E p \in Procs :
        /\ procs[p].nav.attempts = 3
        /\ ~procs[p].nav.ok
        /\ procs[p].nav.waits = <<2000, 4000>>

\* C10: a run that fetches its page but has nothing in range (no card, or
\* no card passing the date filter) returns 'success' with inserted = 0 and
\* skipped = 0 and records last_scrape_date = today, so that a later call on
\* the same day is skipped.
C10_EmptyRunStep ==
    \A p \in Procs :
        (/\ procs[p].pc = "fetch"
         /\ procs'[p].pc # "fetch"
         /\ procs'[p].nav.ok
         /\ FilterArticles(PageOf(Src(p)), procs[p].today, procs[p].last) = <<>>)
        => /\ procs'[p].pc = "ret"
           /\ procs'[p].res.status = "success"
           /\ procs'[p].res.inserted = 0
           /\ procs'[p].res.skipped = 0
           /\ scrapeState'[Src(p)].has
           /\ scrapeState'[Src(p)].date = procs[p].today
           /\ AlreadyScrapedToday(scrapeState'[Src(p)], procs[p].today)
           /\ rawArticles' = rawArticles

C10_EmptyRun == [][C10_EmptyRunStep]_vars

\* a page with cards, none of them in range, was recorded as a successful run
C10_Witness ==
    \E p \in Procs :
        /\ procs[p].pc = "ret"
        /\ procs[p].res = EmptyBatchResult
        /\ procs[p].batch = <<>>
        /\ procs[p].nav.ok
        /\ Len(PageOf(Src(p))) > 0
        /\ scrapeState[Src(p)].date = procs[p].today

\* C6: batch atomicity.  The rows of a batch reach raw_articles only
\* through COMMIT, all of them at once.  When a statement of the batch fails
\* with an unexpected database error, no row of the batch is persisted, the
\* source returns 'error', its scrape_state row is left as it was, and the
\* sources that follow are still processed.
C6_BatchAtomicStep ==
    \A p \in Procs :
        /\ (Returns(p) /\ procs'[p].res.error = "db")
           => /\ procs'[p].res.status = "error"
              /\ rawArticles' = rawArticles
              /\ \A i \in 1..Len(procs[p].pending) :
                    ~InSeq(rawArticles', procs[p].pending[i].url)
              /\ procs'[p].pending = <<>>
              /\ scrapeState' = scrapeState
        /\ (procs[p].pc = "ret" /\ procs[p].res.error = "db" /\ procs'[p] # procs[p])
           => /\ procs'[p].nres = procs[p].nres + 1
              /\ IF procs[p].idx < Len(SOURCES)
                 THEN procs'[p].pc = "src" /\ procs'[p].idx = procs[p].idx + 1
                 ELSE procs'[p].pc = "fin" /\ procs'[p].nres = Len(SOURCES)
        /\ (procs[p].pc = "commit" /\ procs'[p].pc = "upd")
           => rawArticles' = rawArticles \o procs[p].pending
        /\ (rawArticles' # rawArticles /\ Len(rawArticles') # Len(rawArticles))
           => \E q \in Procs : procs[q].pc = "commit" /\ procs'[q].pc = "upd"

C6_BatchAtomic == [][C6_BatchAtomicStep]_vars

\* a batch failed on its second article after its first had been inserted,
\* and the first is not in raw_articles
C6_Witness ==
    \E p \in Procs :
        /\ procs[p].pc = "ret"
        /\ procs[p].res.error = "db"
        /\ procs[p].k = 2
        /\ procs[p].idx < Len(SOURCES)
        /\ ~InSeq(rawArticles, procs[p].batch[1].url)
        /\ ~InSeq(articles, procs[p].batch[1].url)
        /\ ~scrapeState[Src(p)].has

\* C7: a fetch that fails on all its attempts gives the source the result
\* 'error', leaves the scrape_state row of the source (and every table) as
\* it was, and the loop of runNewsScraper goes on with the next source, so
\* the run ends with one result per source.
C7_FetchFailureStep ==
    \A p \in Procs :
        /\ (Returns(p) /\ procs'[p].res.error = "navigation")
           => /\ procs'[p].res.status = "error"
              /\ procs'[p].nav.attempts = MaxRetries
              /\ TablesUnchanged
        /\ (procs[p].pc = "ret" /\ procs[p].res.error = "navigation" /\ procs'[p] # procs[p])
           => /\ procs'[p].nres = procs[p].nres + 1
              /\ scrapeState' = scrapeState
              /\ IF procs[p].idx < Len(SOURCES)
                 THEN procs'[p].pc = "src" /\ procs'[p].idx = procs[p].idx + 1
                 ELSE procs'[p].pc = "fin" /\ procs'[p].nres = Len(SOURCES)

C7_FetchFailure == [][C7_FetchFailureStep]_vars

\* the first source of the registry failed to load and has no scrape_state row
C7_Witness ==
    \E p \in Procs :
        /\ procs[p].pc = "ret"
        /\ procs[p].idx = 1
        /\ procs[p].res.error = "navigation"
        /\ ~procs[p].nav.ok
        /\ ~scrapeState[Src(p)].has

C5_UniqueViolationBenign ==
    \A p \in Procs :
        procs[p].pc = "ret" => procs[p].res.error # "23505"

\* C4: (name, version) is unique in releases in every reachable state; rows
\* of releases are only ever added, never updated or removed; and a run that
\* has extracted a version already stored reports 'exists' or 'duplicate'
\* for it, never 'error', and leaves the table as it is.
C4_ReleaseKeyUnique ==
    \A r1, r2 \in releases :
        (r1.name = r2.name /\ r1.version = r2.version) => r1 = r2

C4_DuplicateSafeStep ==
    /\ releases \subseteq releases'
    /\ \A p \in Procs :
        (rprocs[p].pc \in {"r_exists", "r_insert"} /\ rprocs'[p].pc = "r_ret")
        => /\ rprocs'[p].res.status # "error"
           /\ RowsOf(Db(p).name, rprocs[p].version) # {}
              => /\ rprocs'[p].res.status \in {"exists", "duplicate"}
                 /\ releases' = releases

C8_RetryAfterErrorStep ==
    \A p \in Procs :
        /\ (/\ procs[p].pc = "d_rel"
            /\ procs'[p].pc # "d_rel"
            /\ scriptExec["scrapeReleases"].has
            /\ scriptExec["scrapeReleases"].date = today
            /\ scriptExec["scrapeReleases"].status = "error")
           => procs'[p].pc \in {"d_relrun", "d_relfail"}
        /\ (/\ procs[p].pc = "d_news"
            /\ procs'[p].pc # "d_news"
            /\ scriptExec["scrapeNews"].has
            /\ scriptExec["scrapeNews"].date = today
            /\ scriptExec["scrapeNews"].status = "error")
           => procs'[p].pc \in {"src", "d_fail"}
        /\ (/\ procs[p].mode = "daily"
            /\ procs[p].pc = "src"
            /\ procs'[p].pc # "src"
            /\ ~(scrapeState[Src(p)].has /\ scrapeState[Src(p)].date = today))
           => procs'[p].pc = "fetch"

C8_RetryAfterError == [][C8_RetryAfterErrorStep]_vars

C2_IdempotentStep ==
    \A p \in Procs :
        LET r == procs[p]
        IN  /\ (r.pc = "commit" /\ procs'[p].pc = "upd" /\ r.pre = "ok")
               => /\ r.pending = <<>>
                  /\ r.skp = Len(r.batch)
                  /\ rawArticles' = rawArticles
            /\ (Returns(p) /\ procs'[p].pre = "ok")
               => /\ procs'[p].res.inserted = 0
                  /\ procs'[p].res.error # "23505"
                  /\ procs'[p].res.status = "success"
                     => procs'[p].res.skipped = Len(r.batch)
            /\ r.rep
               => /\ Len(rawArticles') = Len(rawArticles)
                  /\ articles' = articles
                  /\ r.pc = "p_select" => Unprocessed(rawArticles) = <<>>

FxPub == parseDate(fx.card.dateText)

\* the filter kept the card
FxKept == Len(fx.out) = 1

C12_TodayAlwaysIncluded ==
    (fx.fn = "filter" /\ fx.done /\ FxPub.ok /\ FxPub.day = fx.t) => FxKept

Component(v, i) == IF i <= Len(v) THEN v[i] ELSE 0

\* a is greater than b in the component-wise order, most significant first
VersionGreater(a, b) ==
    \E i \in 1..(Len(a) + Len(b)) :
        /\ Component(a, i) > Component(b, i)
        /\ \A j \in 1..(i - 1) : Component(a, j) = Component(b, j)

\* the candidates of the extraction under examination
FxCandidates == {fx.found[i] : i \in 1..Len(fx.found)}

\* the same candidates in the page order given by the permutation g
Reordered(found, g) == [i \in 1..Len(found) |-> found[g[i]]]

\* C14 (as claimed): for every extractor of the registry the version
\* returned for a page is the highest of the candidates found on it, and is
\* the same for every order in which the candidates appear on the page.
C14_OrderIndependent ==
    (fx.fn = "extract" /\ fx.done /\ Len(fx.found) > 0)
    => /\ fx.out \in FxCandidates
       /\ \A c \in FxCandidates : ~VersionGreater(c, fx.out)
       /\ \A g \in Permutations(1..Len(fx.found)) :
             extractVersion(databases[fx.db], Reordered(fx.found, g)) = fx.out

\* C15: for the extractors that select with a comparator (all but the
\* first-match extractors of Neo4j and TiDB) and any non-empty list of
\* candidates, the selected version is one of the candidates and no
\* candidate is greater in the component-wise order, a missing trailing
\* component counting as 0; candidates that compare equal are a tie.
C15_MaxSelection ==
    (/\ fx.fn = "extract"
     /\ fx.done
     /\ Len(fx.found) > 0
     /\ databases[fx.db].pick # "first")
    => /\ fx.out \in FxCandidates
       /\ \A c \in FxCandidates : ~VersionGreater(c, fx.out)

\* the Redis extractor was given 8.0, 7.2, 8.0.1 and selected 8.0.1
C15_Witness ==
    /\ fx.fn = "extract"
    /\ fx.done
    /\ databases[fx.db].name = "Redis"
    /\ fx.found = <<<<8, 0>>, <<7, 2>>, <<8, 0, 1>>>>
    /\ fx.out = <<8, 0, 1>>

\* the categories in rule order
CategoryOrder == <<"Key-Value", "Columnar", "Graph", "Document", "Distributed SQL">>

\* rule i matches the title or the content of a row
RuleMatches(i, title, content) ==
    (KeywordsIn(title) \cup ContentWords(content)) \cap CategoryRules[i].words # {}

\* C16: every row of articles carries the category of the first rule, in
\* the order Key-Value, Columnar, Graph, Document, Distributed SQL, that
\* matches its title and content, so its category is in that closed set;
\* and a processed raw article whose title and content match no rule has no
\* row in articles.
C16_CategoryAssignment ==
    /\ \A k \in 1..Len(articles) :
          \E i \in 1..Len(CategoryOrder) :
              /\ articles[k].category = CategoryOrder[i]
              /\ CategoryRules[i].category = CategoryOrder[i]
              /\ RuleMatches(i, articles[k].title, articles[k].content)
              /\ \A j \in 1..(i - 1) : ~RuleMatches(j, articles[k].title, articles[k].content)
    /\ \A n \in 1..Len(rawArticles) :
          (/\ rawArticles[n].processed
           /\ \A i \in 1..Len(CategoryOrder) :
                 ~RuleMatches(i, rawArticles[n].title, rawArticles[n].content))
          => \A k \in 1..Len(articles) : articles[k].url # rawArticles[n].url

\* a title naming Redis and Cassandra was stored as Key-Value and a row
\* matching no rule was marked processed without being stored
C16_Witness ==
    /\ Len(rawArticles) = 2
    /\ rawArticles[1].processed
    /\ rawArticles[2].processed
    /\ rawArticles[1].title = "Redis vs Cassandra at scale"
    /\ rawArticles[2].title = "Weekly roundup"
    /\ ContentWords(rawArticles[2].content) = {}
    /\ Len(articles) = 1
    /\ articles[1].url = "u1"
    /\ articles[1].category = "Key-Value"

\* the background jobs in progress
RunningJobs == {p \in Procs : reqs[p].bg # "none"}

\* C17 (as claimed): whatever the interleaving of the start requests, at
\* most one background scraping job is running at any time.
C17_SingleJob == Cardinality(RunningJobs) <= 1

\* C18 (as claimed): whatever the interleaving of the manual trigger
\* requests, the count stored for a day never exceeds the daily maximum.
C18_DailyQuota == \A d \in 1..MaxDay : manualCounts[d] <= MAX_DAILY_EXECUTIONS

\* C19 (as claimed): once the job state is running, the job status
\* eventually becomes completed or error and isRunning becomes false.
C19_JobTerminates ==
    (currentScrapingJob.status = "running")
    ~> (currentScrapingJob.status \in {"completed", "error"} /\ ~currentScrapingJob.isRunning)

\* the run of the current source of worker p, not skipped, ends in this step
RunEnds(p) == procs[p].pc \in {"fetch", "ins_check", "ins_exec", "commit", "upd"} /\ Returns(p)

\* C20 (as claimed): every run of a source that is not skipped writes the
\* scrape_state row of the source when it ends, in success or in failure.
C20_AsClaimedStep ==
    \A p \in Procs :
        RunEnds(p) => scrapeState'[Src(p)] # scrapeState[Src(p)]

C20_AsClaimed == [][C20_AsClaimedStep]_vars

\* C20 (amended): a run of a source that is not skipped and ends in success
\* writes the scrape_state row of the source exactly once, in the step that
\* ends the run, with the day of the run and the count of inserted rows; a
\* run that ends in error does not write it; no other step writes it.
C20_StateWriteStep ==
    /\ \A p \in Procs :
          RunEnds(p) =>
              IF procs'[p].res.status = "success"
              THEN /\ scrapeState'[Src(p)] # scrapeState[Src(p)]
                   /\ scrapeState'[Src(p)].has
                   /\ scrapeState'[Src(p)].date = procs[p].today
                   /\ scrapeState'[Src(p)].added = procs'[p].res.inserted
              ELSE scrapeState'[Src(p)] = scrapeState[Src(p)]
    /\ \A s \in SourceIds :
          scrapeState'[s] # scrapeState[s]
          => \E p \in Procs : RunEnds(p) /\ Src(p) = s /\ procs'[p].res.status = "success"

C20_StateWrite == [][C20_StateWriteStep]_vars

\* the run of the first source ended in error and left no row, the run of
\* the second source ended in success and its row carries the day of the run
C20_Witness ==
    \E p \in Procs :
        /\ procs[p].pc = "ret"
        /\ procs[p].idx = 2
        /\ procs[p].res.status = "success"
        /\ procs[p].res.inserted > 0
        /\ scrapeState[SOURCES[1]] = NoState
        /\ scrapeState[SOURCES[2]].has
        /\ scrapeState[SOURCES[2]].date = procs[p].today
        /\ scrapeState[SOURCES[2]].added = procs[p].res.inserted

\* the calls of triggerDailyScrapers whose child scrapeReleases.js runs
DailyReleaseRuns == {p \in Procs : procs[p].mode = "daily" /\ procs[p].pc = "d_relrun"}

\* the calls of triggerDailyScrapers whose child scrapeNews.js runs
DailyNewsRuns ==
    {p \in Procs : /\ procs[p].mode = "daily"
                   /\ procs[p].pc \in {"src", "fetch", "ins_check", "ins_exec", "commit",
                                       "upd", "ret", "fin"}}

\* C21 (as claimed): within one calendar day and for every interleaving of
\* the calls of triggerDailyScrapers, each script is executed at most once,
\* so no two executions of the same script are ever in progress together.
C21_OncePerDay ==
    /\ Cardinality(DailyReleaseRuns) <= 1
    /\ Cardinality(DailyNewsRuns) <= 1

\* the call of worker p has gone through its loop and returns normally
LoopEnds(p) == procs[p].pc \in {"p_check", "p_insert"} /\ procs'[p].pc = "p_done"

\* C22: when processRawArticles ends its loop and returns normally, every
\* row it selected is marked processed; a row marked processed stays so;
\* and a call selects only rows that are not marked processed.
C22_RetirementStep ==
    /\ \A p \in Procs :
          LoopEnds(p) =>
              \A i \in 1..Len(procs[p].plist) : rawArticles'[procs[p].plist[i]].processed
    /\ \A n \in 1..Len(rawArticles) :
          rawArticles[n].processed
          => /\ n <= Len(rawArticles')
             /\ rawArticles'[n].processed
             /\ rawArticles'[n].url = rawArticles[n].url
    /\ \A p \in Procs :
          (procs[p].pc = "p_select" /\ procs'[p].pc = "p_check")
          => \A i \in 1..Len(procs'[p].plist) : ~rawArticles[procs'[p].plist[i]].processed

C22_Retirement == [][C22_RetirementStep]_vars

\* a call returns normally after storing one row and rejecting another,
\* and every row of raw_articles is retired
C22_Witness ==
    \E p \in Procs :
        /\ procs[p].pc = "p_done"
        /\ procs[p].pIns >= 1
        /\ procs[p].pRej >= 1
        /\ Len(rawArticles) >= 2
        /\ \A n \in 1..Len(rawArticles) : rawArticles[n].processed

\* C23: no step updates or deletes a row of articles or of releases; no
\* step deletes a scrape_state row; and a scrape_state row comes into being
\* only in the step that ends a successful run of its source.
C23_AppendOnlyStep ==
    /\ Len(articles') >= Len(articles)
    /\ \A k \in 1..Len(articles) : articles'[k] = articles[k]
    /\ releases \subseteq releases'
    /\ \A s \in SourceIds :
          /\ scrapeState[s].has => scrapeState'[s].has
          /\ (~scrapeState[s].has /\ scrapeState'[s].has)
             => \E p \in Procs :
                    RunEnds(p) /\ Src(p) = s /\ procs'[p].res.status = "success"

C23_AppendOnly == [][C23_AppendOnlyStep]_vars

\* articles holds two rows and releases one, and the scrape_state row of a
\* source created on the first day was updated by a run of the second day
C23_Witness ==
    /\ Len(articles) >= 2
    /\ releases # {}
    /\ \E s \in SourceIds :
          /\ scrapeState[s].has
          /\ scrapeState[s].date = 2
          /\ scrapeState[s].added = 0
          /\ scrapeState[s].total > 0

\* C24 (as claimed): a raw article whose content fails validation
\* (cleanContent gives null) is rejected: once it is processed, articles
\* holds no row for it.
C24_InvalidRejected ==
    \A n \in 1..Len(rawArticles) :
        (rawArticles[n].processed /\ cleanContent(rawArticles[n].content) = <<>>)
        => \A k \in 1..Len(articles) : articles[k].url # rawArticles[n].url

\* C25 (as claimed): in the script run of an accepted manual trigger every
\* news source is fetched, also when the source was scraped successfully
\* earlier the same day: the step that begins a source goes on to the fetch.
C25_ManualRefetchStep ==
    \A p \in Procs :
        (procs[p].mode = "pipeline" /\ procs[p].pc = "src" /\ procs'[p].pc # "src")
        => procs'[p].pc = "fetch"

C25_ManualRefetch == [][C25_ManualRefetchStep]_vars

\* C26 (as claimed): after any sequence and interleaving of trigger calls
\* and notification reads, at most one notification of type 'release'
\* exists for each name and version.
C26_OneNotification ==
    \A n \in notifications : Cardinality(NotificationsOf(n.name, n.version)) <= 1

\* the job state as getScrapingJobStatus returns it is well formed
JobStateWellFormed ==
    /\ currentScrapingJob.isRunning <=> currentScrapingJob.status = "running"
    /\ currentScrapingJob.status \in {"idle", "running", "completed", "error"}
    /\ currentScrapingJob.jobId = IdleJob.jobId => currentScrapingJob.status = "idle"

\* once a job has been started the status is never idle again
NeverIdleAgainStep ==
    currentScrapingJob.status # "idle" => currentScrapingJob'.status # "idle"

\* C27: in every state isRunning is true exactly when the status is
\* running, the status is idle, running, completed or error, and the job has
\* no identifier only while the status is idle; the status never returns to
\* idle once a job has been started.
C27_JobState == []JobStateWellFormed /\ [][NeverIdleAgainStep]_vars

\* a job has completed while the background job of another request is
\* still in progress
C27_Witness ==
    /\ currentScrapingJob.status = "completed"
    /\ ~currentScrapingJob.isRunning
    /\ currentScrapingJob.jobId # IdleJob.jobId
    /\ RunningJobs # {}

\* this step belongs to the start request of slot p or to its background job
StartRequestSteps(p) ==
    /\ reqs'[p] # reqs[p]
    /\ \/ reqs[p].kind = "nonblocking"
       \/ reqs'[p].kind = "nonblocking"
       \/ reqs'[p].response = "already"
       \/ reqs[p].bg # "none"

\* C28: a start request that is rejected (already in progress, or limit
\* reached) changes neither the counts nor the job state and starts no job;
\* an accepted request adds exactly 1 to the count of the day, in its
\* incrementExecutionCount step, which precedes the start of its background
\* job; and no step ever lowers a count.
C28_QuotaAccountingStep ==
    /\ \A d \in 1..MaxDay : manualCounts'[d] >= manualCounts[d]
    /\ \A p \in Procs :
          StartRequestSteps(p) =>
              /\ IF reqs[p].pc = "nb_inc" /\ reqs'[p].pc = "nb_rem"
                 THEN manualCounts' = [manualCounts EXCEPT ![today] = @ + 1]
                 ELSE manualCounts' = manualCounts
              /\ reqs'[p].pc = "nb_rem" => reqs[p].pc = "nb_inc"
              /\ (reqs'[p].pc = "nb_limit" \/ reqs'[p].response \in {"already", "limit"})
                 => /\ currentScrapingJob' = currentScrapingJob
                    /\ reqs'[p].bg = "none"
              /\ (reqs[p].bg = "none" /\ reqs'[p].bg # "none") => reqs[p].pc = "nb_rem"
              /\ reqs'[p].response = "started" => reqs[p].pc = "nb_rem" \/ reqs[p].bg # "none"

C28_QuotaAccounting == [][C28_QuotaAccountingStep]_vars

\* one request was accepted and its job is in progress, the count of the
\* day is 1, and the request of the other slot was rejected
C28_Witness ==
    \E p \in Procs, q \in Procs :
        /\ reqs[p].response = "started"
        /\ reqs[p].bg # "none"
        /\ reqs[q].response = "already"
        /\ manualCounts[today] = 1

\* the counts every returning call reports add up
CountsAddUp ==
    /\ (fx.fn = "insertArticles" /\ fx.done)
       => fx.out.inserted + fx.out.skipped + fx.out.rejected = Len(fx.batch)
    /\ \A p \in Procs :
          procs[p].pc \in {"commit", "upd"} => procs[p].ins + procs[p].skp = Len(procs[p].batch)

\* the counts returned at the end of a run add up and the scrape_state
\* update adds the inserted count to the total
CountsAddUpStep ==
    /\ \A p \in Procs :
          (procs[p].pc = "upd" /\ procs'[p].pc = "ret")
          => /\ procs'[p].res.inserted + procs'[p].res.skipped = Len(procs[p].batch)
             /\ scrapeState'[Src(p)].total
                  = scrapeState[Src(p)].total + procs'[p].res.inserted
    /\ \A p \in Procs :
          (procs[p].pc = "fetch" /\ procs'[p].pc = "ret" /\ procs'[p].res.status = "success")
          => scrapeState'[Src(p)].total = scrapeState[Src(p)].total
    /\ \A p \in Procs :
          LoopEnds(p)
          => procs'[p].pIns + procs'[p].pRej + procs'[p].pSkp = Len(procs[p].plist)

\* C29: a committed batch of insertRawArticles has inserted + skipped =
\* batch size; the live insertArticles returns inserted + skipped + rejected
\* = batch size; a non-empty run of processRawArticles returns inserted +
\* rejected + skipped = the number of unprocessed rows it read; and each
\* scrape_state update adds the inserted count of the run to the total.
C29_CountConservation == []CountsAddUp /\ [][CountsAddUpStep]_vars

\* a run of processRawArticles has stored one row and rejected another,
\* and a scrape_state total counts two inserted rows
C29_Witness ==
    /\ \E p \in Procs :
          /\ procs[p].pc = "p_done"
          /\ procs[p].pIns >= 1
          /\ procs[p].pRej >= 1
    /\ \E s \in SourceIds : scrapeState[s].has /\ scrapeState[s].total >= 2

\* the card of the catalog a filtered article was extracted from
CardOf(url) == Catalog[CHOOSE c \in CardIds : Catalog[c].url = url]

\* the urls of the rows of a sequence
UrlsOf(rows) == {rows[i].url : i \in 1..Len(rows)}

\* the run of worker p read a watermark on or after the calendar day of the
\* card's date
BehindWatermark(p, card) ==
    LET pub == parseDate(card.dateText)
    IN  pub.ok /\ procs[p].last.has /\ procs[p].last.date >= IsoDay(pub)

\* no batch of a run holds a card dated on or before the watermark the run
\* read
NoneBehindWatermark ==
    \A p \in Procs :
        procs[p].pc \in {"ins_check", "ins_exec", "commit"}
        => \A i \in 1..Len(procs[p].batch) :
              ~BehindWatermark(p, CardOf(procs[p].batch[i].url))

\* a call on the day of the watermark is skipped, a watermark never moves
\* back, and rows reach raw_articles only from the filtered batch of a run
BlindSpotStep ==
    /\ \A p \in Procs :
          (/\ procs[p].pc = "src"
           /\ procs'[p].pc # "src"
           /\ scrapeState[Src(p)].has
           /\ scrapeState[Src(p)].date = today)
          => procs'[p].pc = "ret" /\ procs'[p].res.status = "skipped"
    /\ \A s \in SourceIds :
          scrapeState[s].has
          => scrapeState'[s].has /\ scrapeState'[s].date >= scrapeState[s].date
    /\ \A p \in Procs :
          \A u \in UrlsOf(procs'[p].pending) \ UrlsOf(procs[p].pending) :
              procs[p].pc = "ins_exec" /\ u = procs[p].batch[procs[p].k].url
    /\ \A u \in UrlsOf(rawArticles') \ UrlsOf(rawArticles) :
          \E p \in Procs : u \in UrlsOf(procs[p].pending)

====
